---------------------------- MODULE Spec2Model ----------------------------
(***************************************************************************)
(* A model of the Santorini engine of rust-wasm: the game kernel           *)
(* (board.rs: BoardState and its wasm wrapper SantoriniBoard) and the      *)
(* search driver (mcts.rs: TreeNode and SantoriniMcts).                    *)
(*                                                                         *)
(* Spec       : a host driving one SantoriniBoard through applyMove.       *)
(* SpecSearch : a host driving SantoriniMcts through setSeed and search,   *)
(*              with the predictor it was constructed with.                *)
(* SpecDrop   : the same host, which may drop the future of search while   *)
(*              it is suspended on the predictor.                          *)
(* SpecToken  : a host passing state tokens to and from SantoriniBoard.    *)
(* SpecTrajectory : a host asking one engine about the successive rounds   *)
(*              of a game, under several cleanup configurations.           *)
(* SpecDescent : a host asking a new engine once, with a budget that lets  *)
(*              the simulations go several edges down.                     *)
(***************************************************************************)
EXTENDS Integers, Sequences, FiniteSets, TLC

VARIABLES
    board,        \* SantoriniBoard.state : BoardState
    next_player,  \* the value returned by the last successful apply_move
    trapped,      \* whether the last apply_move call panicked
    call,         \* the last apply_move call: its kind, and a probe's arguments
    play,         \* history: "legal", "over" (played on after the end), "off"
    token,        \* the last wrapper call other than apply_move on the board, the
                  \* Int8Array it took or returned, and the apply_move calls since
    config,              \* SantoriniMcts.config
    nodes,               \* SantoriniMcts.nodes : key -> TreeNode
    rng,                 \* SantoriniMcts.rng
    last_cleanup_round,  \* SantoriniMcts.last_cleanup_round
    task,         \* the future of search: where it is suspended, and its locals
    asked,        \* the token and player the host passes to search
    query,        \* the other arguments of the last search call, the seed set
                  \* right before it, and the engine's tables when it began
    result,       \* what the last search call returned
    meter,        \* history of the last search call: its budget, simulations
                  \* begun, simulations that met a terminal node, predictor calls
    oracle,       \* history: the first prediction returned for each board
    honest,       \* history: the predictor has been a function of the board
    seeded,       \* Some(seed) when setSeed was the last call on the engine
    prev,         \* history: the successful search before `last`
    last,         \* history: the last successful search, query and output
    failed,       \* history: the leaf whose prediction was too short, and the
                  \* size of the table then
    answer,       \* Some(prediction) when the last step of the future was the
                  \* resolution of the predictor's promise with it
    used,         \* history: search calls made, engines constructed
    sweep,        \* history: Some(the table handed to the cleanup) in the step in
                  \* which a search call ran to its end
    trail,        \* history: the last backpropagation of the last step of the
                  \* search future, as Some(record), with its breadcrumbs, the
                  \* value it started from, the value the simulation returned
                  \* and the statistics of each breadcrumb node before and after
    log           \* history: the records of all the simulations that returned
                  \* on the engine in use, in the order in which they returned

boardVars == <<board, next_player, trapped, call, play, token>>
searchVars == <<config, nodes, rng, last_cleanup_round, task, asked, query, result,
                meter, oracle, honest, seeded, prev, last, failed, answer, used,
                sweep, trail, log>>
vars == <<board, next_player, trapped, call, play, token,
          config, nodes, rng, last_cleanup_round, task, asked, query, result,
          meter, oracle, honest, seeded, prev, last, failed, answer, used, sweep,
          trail, log>>

(***************************************************************************)
(* Bounds of the exploration.                                              *)
(***************************************************************************)
\* The host stops playing once the round counter has reached MaxPlayRound.
MaxPlayRound == 10
\* It tries contract-violating calls only while the round is at most
\* MaxProbeRound.
MaxProbeRound == 5
\* SpecSearch: search calls per behaviour, engines constructed per behaviour,
\* and the number of states of the random generator.
MaxSearches == 2
MaxEngines == 2
\* SpecTrajectory: the round of the last position the host asks about.
MaxTrajectoryRound == 42
RngModulus == 2
\* SpecToken: apply_move calls after a setState or reset.
MaxTokenMoves == 2

(***************************************************************************)
(* board.rs: constants and the action codec.                               *)
(***************************************************************************)
BOARD_SIZE == 5
CHANNELS == 3
CELL_COUNT == BOARD_SIZE * BOARD_SIZE
STATE_SIZE == CELL_COUNT * CHANNELS
NB_GODS == 1
ACTION_SIZE == NB_GODS * 2 * 9 * 9
PLACEMENT_ACTIONS == CELL_COUNT

Cells == 0 .. (CELL_COUNT - 1)
Actions == 0 .. (ACTION_SIZE - 1)
Players == {0, 1}

\* Option<T>: None, or Some(v) whose payload is opt[1].
None == << >>
Some(v) == << v >>

Min(a, b) == IF a < b THEN a ELSE b
Max(a, b) == IF a > b THEN a ELSE b

\* `x as i8` / wrapping i8 arithmetic (two's complement, 8 bits).
ToI8(x) == ((x + 128) % 256) - 128

DIRECTIONS ==
    << <<-1, -1>>, <<-1, 0>>, <<-1, 1>>,
       << 0, -1>>, << 0, 0>>, << 0, 1>>,
       << 1, -1>>, << 1, 0>>, << 1, 1>> >>

idx(y, x) == y * BOARD_SIZE + x

encode_action(worker, move_direction, build_direction) ==
    NB_GODS * 9 * 9 * worker + 9 * 9 * 0 + 9 * move_direction + build_direction

\* Mutant of decode_action: the two directions change places.
decode_action_transposed(action) ==
    LET worker == action \div (NB_GODS * 9 * 9)
        remainder == action % (NB_GODS * 9 * 9)
    IN  [worker |-> worker,
         move_direction |-> remainder % 9,
         build_direction |-> remainder \div 9]

decode_action(action) ==
    LET worker == action \div (NB_GODS * 9 * 9)
        remainder == action % (NB_GODS * 9 * 9)
    IN  [worker |-> worker,
         move_direction |-> remainder \div 9,
         build_direction |-> remainder % 9]

\* apply_direction takes a 0-based direction; DIRECTIONS is a 1-based tuple.
apply_direction(position, direction) ==
    LET delta == DIRECTIONS[direction + 1]
        ny == position[1] + delta[1]
        nx == position[2] + delta[2]
    IN  IF ny \in 0 .. (BOARD_SIZE - 1) /\ nx \in 0 .. (BOARD_SIZE - 1)
        THEN Some(<<ny, nx>>)
        ELSE None

(***************************************************************************)
(* board.rs: BoardState.                                                   *)
(***************************************************************************)
BoardState_new ==
    [workers |-> [i \in Cells |-> 0],
     levels  |-> [i \in Cells |-> 0],
     round   |-> 0]

\* First cell, in row-major order, that holds `worker`.
find_worker(b, worker) ==
    LET hits == {i \in Cells : b.workers[i] = worker}
    IN  IF hits = {} THEN None
        ELSE LET first == CHOOSE i \in hits : \A j \in hits : i <= j
             IN  Some(<<first \div BOARD_SIZE, first % BOARD_SIZE>>)

\* Some(<<placement_player, worker_to_place>>) while a worker is unplaced.
next_placement(b) ==
    IF find_worker(b, 1) = None THEN Some(<<0, 1>>)
    ELSE IF find_worker(b, 2) = None THEN Some(<<0, 2>>)
    ELSE IF find_worker(b, -1) = None THEN Some(<<1, -1>>)
    ELSE IF find_worker(b, -2) = None THEN Some(<<1, -2>>)
    ELSE None

\* Mutant of can_move: the occupancy test is missing.
can_move_onto_worker(b, old_pos, new_pos) ==
    IF old_pos = new_pos THEN TRUE
    ELSE LET target_index == idx(new_pos[1], new_pos[2])
             new_level == b.levels[target_index]
             old_level == b.levels[idx(old_pos[1], old_pos[2])]
         IN  IF new_level > 3 THEN FALSE
             ELSE new_level <= old_level + 1

can_move(b, old_pos, new_pos) ==
    IF old_pos = new_pos THEN TRUE
    ELSE LET target_index == idx(new_pos[1], new_pos[2])
             new_level == b.levels[target_index]
             old_level == b.levels[idx(old_pos[1], old_pos[2])]
         IN  IF b.workers[target_index] # 0 THEN FALSE
             ELSE IF new_level > 3 THEN FALSE
             ELSE new_level <= old_level + 1

\* Mutant of can_build: the moving worker's own cell is not exempted.
can_build_no_ignore(b, pos, ignore) ==
    LET index == idx(pos[1], pos[2])
    IN  IF b.workers[index] # 0 THEN FALSE
        ELSE b.levels[index] < 4

\* Mutant of can_build: a level-4 cell can be built on.
can_build_on_dome(b, pos, ignore) ==
    LET index == idx(pos[1], pos[2])
        occupant == b.workers[index]
    IN  IF occupant # 0 /\ occupant # ignore THEN FALSE
        ELSE b.levels[index] < 5

can_build(b, pos, ignore) ==
    LET index == idx(pos[1], pos[2])
        occupant == b.workers[index]
    IN  IF occupant # 0 /\ occupant # ignore THEN FALSE
        ELSE b.levels[index] < 4

\* Mutant of bump_round: the counter wraps after 127.
bump_round_wrapping(b) == [b EXCEPT !.round = (@ + 1) % 128]

bump_round(b) ==
    IF b.round < 127 THEN [b EXCEPT !.round = @ + 1] ELSE b

\* Mutant of canonicalised: the workers are negated for player 0 too.
canonicalised_always(b, player) ==
    [b EXCEPT !.workers = [i \in Cells |-> -b.workers[i]]]

canonicalised(b, player) ==
    IF player = 0 THEN b
    ELSE [b EXCEPT !.workers = [i \in Cells |-> -b.workers[i]]]

\* Mutant of worker_moves: the build test exempts no worker.
worker_moves_exempts_nobody(b, worker, player_sign) ==
    LET worker_id == (worker + 1) * player_sign
        found == find_worker(b, worker_id)
    IN  IF found = None THEN {}
        ELSE LET position == found[1]
                 move_ok(m) ==
                     /\ m # 4
                     /\ LET target == apply_direction(position, m)
                        IN  /\ target # None
                            /\ can_move(b, position, target[1])
                 build_ok(m, d) ==
                     /\ d # 4
                     /\ LET build_pos ==
                                apply_direction(apply_direction(position, m)[1], d)
                        IN  /\ build_pos # None
                            /\ can_build(b, build_pos[1], 0)
             IN  UNION { { encode_action(worker, m, d) :
                             d \in {x \in 0 .. 8 : build_ok(m, x)} } :
                         m \in {x \in 0 .. 8 : move_ok(x)} }

\* The actions valid_moves sets for one worker of `player` (movement phase):
\* the body of its `for worker in 0..2` loop, one set per legal move.
worker_moves(b, worker, player_sign) ==
    LET worker_id == (worker + 1) * player_sign
        found == find_worker(b, worker_id)
    IN  IF found = None THEN {}
        ELSE LET position == found[1]
                 move_ok(m) ==
                     /\ m # 4
                     /\ LET target == apply_direction(position, m)
                        IN  /\ target # None
                            /\ can_move(b, position, target[1])
                 build_ok(m, d) ==
                     /\ d # 4
                     /\ LET build_pos ==
                                apply_direction(apply_direction(position, m)[1], d)
                        IN  /\ build_pos # None
                            /\ can_build(b, build_pos[1], worker_id)
             IN  UNION { { encode_action(worker, m, d) :
                             d \in {x \in 0 .. 8 : build_ok(m, x)} } :
                         m \in {x \in 0 .. 8 : move_ok(x)} }

\* The set of indices at which valid_moves leaves `true`.
valid_set(b, player) ==
    IF next_placement(b) # None
    THEN {index \in 0 .. (CELL_COUNT - 1) : b.workers[index] = 0}
    ELSE LET player_sign == IF player = 0 THEN 1 ELSE -1
         IN  worker_moves(b, 0, player_sign) \cup worker_moves(b, 1, player_sign)

\* The mask `out` that valid_moves leaves: [bool; ACTION_SIZE].
valid_moves(b, player) ==
    LET set == valid_set(b, player)
    IN  [a \in Actions |-> a \in set]

\* Outcome of a call that panicked: nothing was written.
Trap(b) == [trap |-> TRUE, board |-> b, next |-> 0]

\* Mutant of make_move_placement: the turn passes after every placement.
make_move_placement_alternates(b, action, player, placement_player, worker_to_place) ==
    IF ~(action < PLACEMENT_ACTIONS) THEN Trap(b)
    ELSE IF placement_player # player THEN Trap(b)
    ELSE LET y == action \div BOARD_SIZE
             x == action % BOARD_SIZE
         IN  IF b.workers[idx(y, x)] # 0 THEN Trap(b)
             ELSE [trap |-> FALSE,
                   board |-> bump_round([b EXCEPT !.workers[idx(y, x)] = worker_to_place]),
                   next |-> 1 - placement_player]

make_move_placement(b, action, player, placement_player, worker_to_place) ==
    IF ~(action < PLACEMENT_ACTIONS) THEN Trap(b)
    ELSE IF placement_player # player THEN Trap(b)
    ELSE LET y == action \div BOARD_SIZE
             x == action % BOARD_SIZE
         IN  IF b.workers[idx(y, x)] # 0 THEN Trap(b)
             ELSE [trap |-> FALSE,
                   board |-> bump_round([b EXCEPT !.workers[idx(y, x)] = worker_to_place]),
                   next |-> IF worker_to_place \in {1, -1}
                            THEN placement_player
                            ELSE 1 - placement_player]

\* Mutant of make_move_commit: the origin cell is not cleared.
make_move_commit_keeps_origin(b, player, worker_id, old_pos, target, build_direction) ==
    LET moved == [b EXCEPT !.workers[idx(target[1], target[2])] = worker_id]
        build == IF build_direction # 4
                 THEN apply_direction(target, build_direction)
                 ELSE None
        built == IF build # None
                 THEN [moved EXCEPT !.levels[idx(build[1][1], build[1][2])] =
                                        Min(@ + 1, 4)]
                 ELSE moved
    IN  [trap |-> FALSE, board |-> bump_round(built), next |-> 1 - player]

\* Mutant of make_move_commit: the worker moves and nothing is built.
make_move_commit_skips_build(b, player, worker_id, old_pos, target, build_direction) ==
    LET moved == [b EXCEPT !.workers =
                     [[@ EXCEPT ![idx(old_pos[1], old_pos[2])] = 0]
                          EXCEPT ![idx(target[1], target[2])] = worker_id]]
    IN  [trap |-> FALSE, board |-> bump_round(moved), next |-> 1 - player]

\* Writes of the movement branch once the worker and its target are known.
make_move_commit(b, player, worker_id, old_pos, target, build_direction) ==
    LET moved == [b EXCEPT !.workers =
                     [[@ EXCEPT ![idx(old_pos[1], old_pos[2])] = 0]
                          EXCEPT ![idx(target[1], target[2])] = worker_id]]
        build == IF build_direction # 4
                 THEN apply_direction(target, build_direction)
                 ELSE None
        built == IF build # None
                 THEN [moved EXCEPT !.levels[idx(build[1][1], build[1][2])] =
                                        Min(@ + 1, 4)]
                 ELSE moved
    IN  [trap |-> FALSE, board |-> bump_round(built), next |-> 1 - player]

\* `(worker as i8 + 1) * player_sign` in i8: the release build wraps; the
\* debug build panics on overflow, where the wrapped id (-128) is on no
\* board of workers in -2..2 and the release build panics on the lookup.
make_move_movement(b, action, player) ==
    LET d == decode_action(action)
        player_sign == IF player = 0 THEN 1 ELSE -1
        worker_id == ToI8(ToI8(ToI8(d.worker) + 1) * player_sign)
        old == find_worker(b, worker_id)
    IN  IF old = None THEN Trap(b)
        ELSE LET target == apply_direction(old[1], d.move_direction)
             IN  IF target = None THEN Trap(b)
                 ELSE make_move_commit(b, player, worker_id, old[1], target[1],
                                       d.build_direction)

make_move(b, action, player) ==
    LET np == next_placement(b)
    IN  IF np # None
        THEN make_move_placement(b, action, player, np[1][1], np[1][2])
        ELSE make_move_movement(b, action, player)

score_for(b, player) ==
    LET mine == {i \in Cells : IF player = 0 THEN b.workers[i] > 0 ELSE b.workers[i] < 0}
    IN  IF \E i \in mine : b.levels[i] > 0
        THEN CHOOSE h \in {b.levels[i] : i \in mine} : \A i \in mine : b.levels[i] <= h
        ELSE 0

has_any_valid_move(b, player) ==
    LET mask == valid_moves(b, player)
    IN  \E a \in Actions : mask[a]

\* Mutant of result_value: a stalemate is scored as a win of the stalemated side.
result_value_stalemate_wins(b, player) ==
    IF next_placement(b) # None THEN None
    ELSE IF score_for(b, 0) = 3 THEN Some(1)
    ELSE IF score_for(b, 1) = 3 THEN Some(-1)
    ELSE IF ~has_any_valid_move(b, player) THEN Some(IF player = 0 THEN 1 ELSE -1)
    ELSE None

\* Option<f32>; the only values are 1.0 and -1.0.
result_value(b, player) ==
    IF next_placement(b) # None THEN None
    ELSE IF score_for(b, 0) = 3 THEN Some(1)
    ELSE IF score_for(b, 1) = 3 THEN Some(-1)
    ELSE IF ~has_any_valid_move(b, player) THEN Some(IF player = 0 THEN -1 ELSE 1)
    ELSE None

(***************************************************************************)
(* board.rs: the 75-byte encoding (the transposition key of mcts.rs).      *)
(***************************************************************************)
\* target[3i] = workers[i], target[3i+1] = levels[i], target[2] = min(round, 127).
write_into_slice(b) ==
    [c \in 1 .. STATE_SIZE |->
        LET i == (c - 1) \div CHANNELS
            ch == (c - 1) % CHANNELS
        IN  IF ch = 0 THEN b.workers[i]
            ELSE IF ch = 1 THEN b.levels[i]
            ELSE IF i = 0 THEN Min(b.round, 127) ELSE 0]

key(b) == write_into_slice(b)

\* Mutant of from_bytes: the round is read from the last cell's third byte.
from_bytes_round_of_last_cell(bytes) ==
    [workers |-> [i \in Cells |-> bytes[CHANNELS * i + 1]],
     levels  |-> [i \in Cells |-> bytes[CHANNELS * i + 2]],
     round   |-> Max(0, Min(bytes[STATE_SIZE], 127))]

\* bytes is a sequence of STATE_SIZE i8 values (1-based here).
from_bytes(bytes) ==
    [workers |-> [i \in Cells |-> bytes[CHANNELS * i + 1]],
     levels  |-> [i \in Cells |-> bytes[CHANNELS * i + 2]],
     round   |-> Max(0, Min(bytes[3], 127))]

from_vec(data) == from_bytes(data)

(***************************************************************************)
(* f32 values are modelled by exact rationals <<numerator, denominator>>   *)
(* in lowest terms with a positive denominator: rounding is left out.      *)
(***************************************************************************)
Abs(x) == IF x < 0 THEN -x ELSE x

RECURSIVE GCD(_, _)
GCD(a, b) == IF b = 0 THEN a ELSE GCD(b, a % b)

Rat(n, d) ==
    LET g == GCD(Abs(n), Abs(d))
        s == IF d < 0 THEN -1 ELSE 1
    IN  <<(s * n) \div g, (s * d) \div g>>

R(n) == <<n, 1>>
\* Sums, products and comparisons cancel common factors before they multiply.
RAdd(x, y) ==
    LET g == GCD(x[2], y[2])
    IN  Rat(x[1] * (y[2] \div g) + y[1] * (x[2] \div g), (x[2] \div g) * y[2])
RNeg(x) == <<-x[1], x[2]>>
RSub(x, y) == RAdd(x, RNeg(y))
RMul(x, y) ==
    LET a == Rat(x[1], y[2])
        b == Rat(y[1], x[2])
    IN  <<a[1] * b[1], a[2] * b[2]>>
RInv(x) == IF x[1] < 0 THEN <<-x[2], -x[1]>> ELSE <<x[2], x[1]>>
RDiv(x, y) == RMul(x, RInv(y))
RLt(x, y) ==
    LET g == GCD(x[2], y[2])
    IN  x[1] * (y[2] \div g) < y[1] * (x[2] \div g)
RLe(x, y) == ~RLt(y, x)
RMax(x, y) == IF RLt(x, y) THEN y ELSE x

\* The sum of f over S, adding each distinct value times its multiplicity.
RECURSIVE RSumOf(_, _, _)
RSumOf(f, S, values) ==
    IF values = {} THEN R(0)
    ELSE LET v == CHOOSE w \in values : TRUE
         IN  RAdd(RMul(v, R(Cardinality({i \in S : f[i] = v}))),
                  RSumOf(f, S, values \ {v}))

RSum(f, S) == RSumOf(f, S, {f[i] : i \in S})

\* EPS = 1e-8; x <= EPS without multiplying by 10^8.
EPS_INV == 100000000
LeEps(x) == x[1] <= 0 \/ (x[2] \div x[1]) >= EPS_INV

\* floor(sqrt(x)) as u32, for x >= 0.
FloorSqrt(x) ==
    CHOOSE e \in 0 .. (x[1] \div x[2]) + 1 :
        /\ e * e * x[2] <= x[1]
        /\ (e + 1) * (e + 1) * x[2] > x[1]

\* Naturals wider than TLC's integers, as 8 digits in base 10000
\* with the lowest first: a * a * n for a < 2^31 and n < 10000.
RECURSIVE Carried(_, _)
Carried(digits, carry) ==
    IF digits = << >> THEN << >>
    ELSE <<(Head(digits) + carry) % 10000>>
           \o Carried(Tail(digits), (Head(digits) + carry) \div 10000)

WideSquare(a) ==
    LET a0 == a % 10000
        a1 == (a \div 10000) % 10000
        a2 == a \div 100000000
    IN  Carried(<<a0 * a0, 2 * a0 * a1, 2 * a0 * a2 + a1 * a1, 2 * a1 * a2, a2 * a2,
                  0, 0, 0>>, 0)

WideTimes(w, n) == Carried([i \in 1 .. 8 |-> w[i] * n], 0)

WideLess(u, v) ==
    \E i \in 1 .. 8 : u[i] < v[i] /\ \A j \in (i + 1) .. 8 : u[j] = v[j]

\* The sign test x + y * sqrt(n) > 0 for an integer n >= 1, decided without
\* the root: by the signs of x and y, and else by comparing (x / y)^2 to n.
SqrtPositive(x, y, n) ==
    IF y[1] = 0 THEN x[1] > 0
    ELSE IF x[1] = 0 THEN y[1] > 0
    ELSE IF x[1] > 0 /\ y[1] > 0 THEN TRUE
    ELSE IF x[1] < 0 /\ y[1] < 0 THEN FALSE
    ELSE LET r == RDiv(<<Abs(x[1]), x[2]>>, <<Abs(y[1]), y[2]>>)
             num == WideSquare(r[1])
             den == WideTimes(WideSquare(r[2]), n)
         IN  IF x[1] > 0 THEN WideLess(den, num) ELSE WideLess(num, den)

(***************************************************************************)
(* predictor.rs / mcts.rs: what the host's predictor resolves with.        *)
(* A prediction is [len, pi, v]: pi has len entries; entry i is given by   *)
(* its exponential, ExpScore, so that exp() stays rational:                *)
(*   "zeros" : pi[i] = 0           (exp = 1)                               *)
(*   "odd"   : pi[i] = ln 2 for odd i, 0 for even i                        *)
(*   "low"   : pi[i] so negative that exp underflows to 0                  *)
(***************************************************************************)
ExpScore(prediction, i) ==
    IF i >= prediction.len THEN 1            \* unwrap_or(0.0).exp()
    ELSE IF prediction.pi = "zeros" THEN 1
    ELSE IF prediction.pi = "odd" THEN 1 + (i % 2)
    ELSE 0

(***************************************************************************)
(* mcts.rs: TreeNode.                                                      *)
(***************************************************************************)
ValidSet(valid) == {i \in Actions : valid[i]}

\* Mutant of from_prediction: the node is stamped with round 0.
from_prediction_stamps_zero(valid, prediction, round) ==
    LET vs == ValidSet(valid)
        score == [i \in Actions |-> IF valid[i] THEN R(ExpScore(prediction, i)) ELSE R(0)]
        sum == RSum(score, vs)
        valid_count == Cardinality(vs)
        policy ==
            IF LeEps(sum)
            THEN IF valid_count = 0
                 THEN [i \in Actions |-> Rat(1, ACTION_SIZE)]
                 ELSE [i \in Actions |-> IF valid[i] THEN Rat(1, valid_count) ELSE R(0)]
            ELSE [i \in Actions |-> IF valid[i] THEN RDiv(score[i], sum) ELSE R(0)]
    IN  [policy |-> policy,
         valid |-> valid,
         visit_count |-> 0,
         qsa |-> [i \in Actions |-> R(0)],
         nsa |-> [i \in Actions |-> 0],
         mean_value |-> prediction.v,
         terminal_value |-> None,
         round |-> 0]

from_prediction(valid, prediction, round) ==
    LET vs == ValidSet(valid)
        score == [i \in Actions |-> IF valid[i] THEN R(ExpScore(prediction, i)) ELSE R(0)]
        sum == RSum(score, vs)
        valid_count == Cardinality(vs)
        policy ==
            IF LeEps(sum)
            THEN IF valid_count = 0
                 THEN [i \in Actions |-> Rat(1, ACTION_SIZE)]
                 ELSE [i \in Actions |-> IF valid[i] THEN Rat(1, valid_count) ELSE R(0)]
            ELSE [i \in Actions |-> IF valid[i] THEN RDiv(score[i], sum) ELSE R(0)]
    IN  [policy |-> policy,
         valid |-> valid,
         visit_count |-> 0,
         qsa |-> [i \in Actions |-> R(0)],
         nsa |-> [i \in Actions |-> 0],
         mean_value |-> prediction.v,
         terminal_value |-> None,
         round |-> round]

terminal(valid, value, round) ==
    [policy |-> [i \in Actions |-> R(0)],
     valid |-> valid,
     visit_count |-> 0,
     qsa |-> [i \in Actions |-> R(0)],
     nsa |-> [i \in Actions |-> 0],
     mean_value |-> value,
     terminal_value |-> Some(value),
     round |-> round]

\* u = q + exploration, kept as q + c * s with s = sqrt(visit_count) when
\* visit_count >= 1 (where sqrt_ns and total are the same f32) and
\* s = sqrt(EPS) = 1/10000 when visit_count = 0.
ucb(node, cpuct, fpu, action) ==
    LET visits == node.nsa[action]
    IN  IF visits = 0
        THEN [q |-> RSub(node.mean_value, fpu),
              c |-> RMul(cpuct, node.policy[action])]
        ELSE [q |-> node.qsa[action],
              c |-> IF node.visit_count > 0
                    THEN RDiv(RMul(cpuct, node.policy[action]), R(1 + visits))
                    ELSE R(0)]

\* `u > best`; best = None stands for MIN_FLOAT.
ucb_above(u, best, visit_count) ==
    IF best = None THEN TRUE
    ELSE LET x == RSub(u.q, best[1].q)
             y == RSub(u.c, best[1].c)
         IN  IF visit_count = 0
             THEN RLt(R(0), RAdd(x, RDiv(y, R(10000))))
             ELSE SqrtPositive(x, y, visit_count)

\* The first valid action, in index order, that the forced-playout test
\* returns at once; None when the loop reaches its end.
forced_action(node, forced_playouts, iteration, coefficient) ==
    LET due == {a \in ValidSet(node.valid) :
                  node.nsa[a] <
                    FloorSqrt(RMul(RMul(coefficient, RMax(node.policy[a], R(0))),
                                   R(Max(iteration, 1))))}
    IN  IF forced_playouts /\ due # {}
        THEN Some(CHOOSE a \in due : \A b \in due : a <= b)
        ELSE None

\* The loop keeps the first action whose u no other exceeds (`u > best`
\* replaces, ties keep the earlier index); 0 when no action is valid.
select_action(node, cpuct, fpu, forced_playouts, iteration, coefficient) ==
    LET vs == ValidSet(node.valid)
        forced == forced_action(node, forced_playouts, iteration, coefficient)
        us == [a \in vs |-> ucb(node, cpuct, fpu, a)]
        values == {us[a] : a \in vs}
        top == CHOOSE u \in values :
                   \A w \in values : ~ucb_above(w, Some(u), node.visit_count)
        best == {a \in vs : ~ucb_above(top, Some(us[a]), node.visit_count)}
    IN  IF forced # None THEN forced[1]
        ELSE IF vs = {} THEN 0
        ELSE CHOOSE a \in best : \A b \in best : a <= b

\* Mutant of record_value: the incremental mean over the visits alone.
record_value_incremental_mean(node, value) ==
    [node EXCEPT
        !.mean_value = RAdd(node.mean_value,
                            RDiv(RSub(value, node.mean_value), R(node.visit_count + 1))),
        !.visit_count = node.visit_count + 1]

record_value(node, value) ==
    LET previous_visits == node.visit_count
        weight == R(previous_visits + 1)
    IN  [node EXCEPT
            !.mean_value = RDiv(RAdd(RMul(node.mean_value, weight), value),
                                RAdd(weight, R(1))),
            !.visit_count = previous_visits + 1]

(***************************************************************************)
(* rand::SmallRng, abstracted: a state in 0 .. RngModulus - 1 that every   *)
(* draw advances; the value drawn is a function of the new state.          *)
(***************************************************************************)
RngStates == 0 .. (RngModulus - 1)
rng_step(s) == (s + 1) % RngModulus
seed_from_u64(seed) == (seed + 1) % RngModulus
\* rng.gen::<f32>(): uniform in [0, 1).
gen_f32(s) == [value |-> Rat(rng_step(s), RngModulus), rng |-> rng_step(s)]
\* rng.gen_range(0..n).
gen_range(s, n) == [value |-> (rng_step(s) * n) \div RngModulus, rng |-> rng_step(s)]
\* Dirichlet::sample for k components: positive entries that sum to 1.
dirichlet_sample(s, k) ==
    LET heavy == rng_step(s) % k
    IN  [value |-> [j \in 0 .. (k - 1) |-> Rat(IF j = heavy THEN k + 1 ELSE 1, 2 * k)],
         rng |-> rng_step(s)]

apply_dirichlet(node, s, alpha, weight) ==
    LET vs == ValidSet(node.valid)
    IN  IF RLe(weight, R(0)) \/ RLe(alpha, R(0)) THEN [node |-> node, rng |-> s]
        ELSE IF Cardinality(vs) < 2 THEN [node |-> node, rng |-> s]
        ELSE LET samples == dirichlet_sample(s, Cardinality(vs))
                 rank(i) == Cardinality({j \in vs : j < i})
                 mixed == [i \in Actions |->
                             IF i \in vs
                             THEN RAdd(RMul(RSub(R(1), weight), node.policy[i]),
                                       RMul(weight, samples.value[rank(i)]))
                             ELSE node.policy[i]]
                 sum == RSum(mixed, vs)
                 policy == IF ~LeEps(sum)
                           THEN [i \in Actions |->
                                    IF i \in vs THEN RDiv(mixed[i], sum) ELSE mixed[i]]
                           ELSE mixed
             IN  [node |-> [node EXCEPT !.policy = policy], rng |-> samples.rng]

(***************************************************************************)
(* mcts.rs: SantoriniMcts, the synchronous parts.                          *)
(***************************************************************************)
insert(table, k, node) ==
    [x \in DOMAIN table \cup {k} |-> IF x = k THEN node ELSE table[x]]

\* Mutant of backpropagate: the value is negated after it is recorded.
RECURSIVE backpropagate_flips_after(_, _, _)
backpropagate_flips_after(table, path, value) ==
    IF path = << >> THEN table
    ELSE LET crumb == path[Len(path)]
             v == value
             rest == SubSeq(path, 1, Len(path) - 1)
         IN  IF crumb[1] \in DOMAIN table
             THEN LET node == record_value(table[crumb[1]], v)
                      edge_visits == node.nsa[crumb[2]] + 1
                      edge_value == RAdd(node.qsa[crumb[2]],
                                         RDiv(RSub(v, node.qsa[crumb[2]]), R(edge_visits)))
                      updated == [node EXCEPT !.nsa[crumb[2]] = edge_visits,
                                              !.qsa[crumb[2]] = edge_value]
                  IN  backpropagate_flips_after([table EXCEPT ![crumb[1]] = updated], rest,
                                                IF crumb[3] THEN RNeg(v) ELSE v)
             ELSE backpropagate_flips_after(table, rest, IF crumb[3] THEN RNeg(v) ELSE v)

\* Mutant of backpropagate: the mean of the edge is taken over the visits
\* of the node.
RECURSIVE backpropagate_edge_mean_by_node_visits(_, _, _)
backpropagate_edge_mean_by_node_visits(table, path, value) ==
    IF path = << >> THEN table
    ELSE LET crumb == path[Len(path)]
             v == IF crumb[3] THEN RNeg(value) ELSE value
             rest == SubSeq(path, 1, Len(path) - 1)
         IN  IF crumb[1] \in DOMAIN table
             THEN LET node == record_value(table[crumb[1]], v)
                      edge_visits == node.nsa[crumb[2]] + 1
                      edge_value == RAdd(node.qsa[crumb[2]],
                                         RDiv(RSub(v, node.qsa[crumb[2]]),
                                              R(node.visit_count)))
                      updated == [node EXCEPT !.nsa[crumb[2]] = edge_visits,
                                              !.qsa[crumb[2]] = edge_value]
                  IN  backpropagate_edge_mean_by_node_visits(
                          [table EXCEPT ![crumb[1]] = updated], rest, v)
             ELSE backpropagate_edge_mean_by_node_visits(table, rest, v)

\* Mutant of backpropagate: the first breadcrumb, that of the root, is
\* left out.
RECURSIVE backpropagate_skips_first_crumb(_, _, _)
backpropagate_skips_first_crumb(table, path, value) ==
    IF Len(path) <= 1 THEN table
    ELSE LET crumb == path[Len(path)]
             v == IF crumb[3] THEN RNeg(value) ELSE value
             rest == SubSeq(path, 1, Len(path) - 1)
         IN  IF crumb[1] \in DOMAIN table
             THEN LET node == record_value(table[crumb[1]], v)
                      edge_visits == node.nsa[crumb[2]] + 1
                      edge_value == RAdd(node.qsa[crumb[2]],
                                         RDiv(RSub(v, node.qsa[crumb[2]]), R(edge_visits)))
                      updated == [node EXCEPT !.nsa[crumb[2]] = edge_visits,
                                              !.qsa[crumb[2]] = edge_value]
                  IN  backpropagate_skips_first_crumb(
                          [table EXCEPT ![crumb[1]] = updated], rest, v)
             ELSE backpropagate_skips_first_crumb(table, rest, v)

\* path is a sequence of <<key, action, flipped>>, walked from its end.
RECURSIVE backpropagate(_, _, _)
backpropagate(table, path, value) ==
    IF path = << >> THEN table
    ELSE LET crumb == path[Len(path)]
             v == IF crumb[3] THEN RNeg(value) ELSE value
             rest == SubSeq(path, 1, Len(path) - 1)
         IN  IF crumb[1] \in DOMAIN table
             THEN LET node == record_value(table[crumb[1]], v)
                      edge_visits == node.nsa[crumb[2]] + 1
                      edge_value == RAdd(node.qsa[crumb[2]],
                                         RDiv(RSub(v, node.qsa[crumb[2]]), R(edge_visits)))
                      updated == [node EXCEPT !.nsa[crumb[2]] = edge_visits,
                                              !.qsa[crumb[2]] = edge_value]
                  IN  backpropagate([table EXCEPT ![crumb[1]] = updated], rest, v)
             ELSE backpropagate(table, rest, v)

\* What a breadcrumb (node, action) shows of a table.
Mark(table, crumb) ==
    [visit_count |-> table[crumb[1]].visit_count,
     mean_value |-> table[crumb[1]].mean_value,
     nsa |-> table[crumb[1]].nsa[crumb[2]],
     qsa |-> table[crumb[1]].qsa[crumb[2]]]

\* The record of `self.backpropagate(&breadcrumbs, value)` on `table`
\* followed by `return Ok(value * to_root_sign)`.
traced_marks(table, after, path) ==
    [i \in 1 .. Len(path) |->
        [before |-> Mark(table, path[i]), after |-> Mark(after, path[i])]]
traced(table, path, value, to_root_sign, k, inserted) ==
    Some([path |-> [i \in 1 .. Len(path) |-> <<path[i][2], path[i][3]>>],
          keys |-> [i \in 1 .. Len(path) |-> path[i][1]],
          leaf |-> k,
          inserted |-> inserted,
          value |-> value,
          returned |-> RMul(value, R(to_root_sign)),
          marks |-> traced_marks(table, backpropagate(table, path, value), path)])

\* Mutant of maybe_cleanup: a cleanup is due as soon as cleanup_interval
\* rounds have passed.
maybe_cleanup_on_the_interval(table, last_round, cfg, current_round) ==
    IF cfg.no_mem_optim THEN [nodes |-> table, last_cleanup_round |-> last_round]
    ELSE IF current_round < (last_round + cfg.cleanup_interval) % 65536
    THEN [nodes |-> table, last_cleanup_round |-> last_round]
    ELSE LET threshold == Max(current_round - cfg.retain_rounds, 0)
             kept == {k \in DOMAIN table : table[k].round >= threshold}
         IN  [nodes |-> [k \in kept |-> table[k]], last_cleanup_round |-> current_round]

\* Mutant of maybe_cleanup: the threshold is current_round.
maybe_cleanup_retains_nothing(table, last_round, cfg, current_round) ==
    IF cfg.no_mem_optim THEN [nodes |-> table, last_cleanup_round |-> last_round]
    ELSE IF current_round <= (last_round + cfg.cleanup_interval) % 65536
    THEN [nodes |-> table, last_cleanup_round |-> last_round]
    ELSE LET threshold == current_round
             kept == {k \in DOMAIN table : table[k].round >= threshold}
         IN  [nodes |-> [k \in kept |-> table[k]], last_cleanup_round |-> current_round]

\* Returns the table and last_cleanup_round after the call (u16 arithmetic).
maybe_cleanup(table, last_round, cfg, current_round) ==
    IF cfg.no_mem_optim THEN [nodes |-> table, last_cleanup_round |-> last_round]
    ELSE IF current_round <= (last_round + cfg.cleanup_interval) % 65536
    THEN [nodes |-> table, last_cleanup_round |-> last_round]
    ELSE LET threshold == Max(current_round - cfg.retain_rounds, 0)
             kept == {k \in DOMAIN table : table[k].round >= threshold}
         IN  [nodes |-> [k \in kept |-> table[k]], last_cleanup_round |-> current_round]

\* count.powf(1.0 / temp) for the temperatures whose inverse is an integer.
RECURSIVE IntPow(_, _)
IntPow(x, n) == IF n = 0 THEN 1 ELSE x * IntPow(x, n - 1)
powf_inverse(count, temp) == IntPow(count, temp[2] \div temp[1])

\* counts after the forced-playout pruning of root_distribution.
pruned_counts(cfg, valid, policy, visits, forced_playouts, num_sims) ==
    LET counts == [i \in Actions |-> IF valid[i] THEN visits[i] ELSE 0]
        vs == ValidSet(valid)
        best_visit == IF vs = {} THEN 0
                      ELSE CHOOSE m \in {visits[i] : i \in vs} : \A i \in vs : visits[i] <= m
    IN  IF forced_playouts /\ best_visit > 0
        THEN [i \in Actions |->
                IF ~valid[i] THEN counts[i]
                ELSE IF visits[i] = best_visit THEN best_visit
                ELSE LET expected ==
                             FloorSqrt(RMul(RMul(cfg.forced_playout_coefficient,
                                                 RMax(policy[i], R(0))),
                                            R(num_sims)))
                         adjusted == Max(visits[i] - expected, 0)
                     IN  IF adjusted > 1 THEN adjusted ELSE 0]
        ELSE counts

\* Mutant of greedy_choice: the tie is broken by a generator that setSeed
\* does not reach.
greedy_choice_unseeded(s, valid, counts) ==
    LET vs == ValidSet(valid)
        ties == {i \in vs : \A j \in vs : counts[j] <= counts[i]}
    IN  IF ties # {}
        THEN LET draw == gen_range(used.engines % RngModulus, Cardinality(ties))
                 selected == CHOOSE i \in ties :
                                 Cardinality({j \in ties : j < i}) = draw.value
             IN  [selected |-> selected, rng |-> s]
        ELSE [selected |-> 0, rng |-> s]

\* The temperature == 0 branch: ties are the valid indices whose count is
\* the largest (counts are whole numbers, so the EPS tests are equalities).
greedy_choice(s, valid, counts) ==
    LET vs == ValidSet(valid)
        ties == {i \in vs : \A j \in vs : counts[j] <= counts[i]}
    IN  IF ties # {}
        THEN LET draw == gen_range(s, Cardinality(ties))
                 selected == CHOOSE i \in ties :
                                 Cardinality({j \in ties : j < i}) = draw.value
             IN  [selected |-> selected, rng |-> draw.rng]
        ELSE [selected |-> 0, rng |-> s]     \* position(..).unwrap_or(0)

root_distribution(s, cfg, valid, policy, visits, temperature, forced_playouts, num_sims) ==
    LET counts == pruned_counts(cfg, valid, policy, visits, forced_playouts, num_sims)
        vs == ValidSet(valid)
        visits_vec == [i \in Actions |-> IF valid[i] THEN visits[i] ELSE 0]
    IN  IF temperature = R(0)
        THEN LET g == greedy_choice(s, valid, counts)
             IN  [policy |-> [i \in Actions |-> IF i = g.selected THEN R(1) ELSE R(0)],
                  visits |-> visits_vec, rng |-> g.rng]
        ELSE LET temp == RMax(temperature, Rat(1, 100))
                 weighted == [i \in Actions |->
                                IF valid[i] /\ counts[i] > 0
                                THEN R(powf_inverse(counts[i], temp)) ELSE R(0)]
                 total == RSum(weighted, vs)
                 valid_count == Cardinality(vs)
             IN  [policy |->
                     IF ~LeEps(total)
                     THEN [i \in Actions |->
                             IF valid[i] THEN RDiv(weighted[i], total) ELSE weighted[i]]
                     ELSE IF valid_count > 0
                     THEN [i \in Actions |-> IF valid[i] THEN Rat(1, valid_count) ELSE R(0)]
                     ELSE weighted,
                  visits |-> visits_vec, rng |-> s]

\* Mutant of num_sims_for: a partial budget is not raised to 1.
num_sims_for_unclamped(cfg, full_search) ==
    IF full_search THEN cfg.num_simulations
    ELSE cfg.num_simulations \div Max(cfg.partial_divisor, 1)

\* The simulation budget of a search call (mcts.rs, search).
num_sims_for(cfg, full_search) ==
    IF full_search THEN cfg.num_simulations
    ELSE Max(cfg.num_simulations \div Max(cfg.partial_divisor, 1), 1)

\* A leaf awaiting its prediction, and the shape of "no leaf".
NoLeaf ==
    [board |-> BoardState_new, key |-> << >>, valid |-> << >>,
     breadcrumbs |-> << >>, to_root_sign |-> 1]

\* run_single_simulation up to its first suspension: the loop from `b` on.
\* kind "done": the simulation returned; "await": evaluate has called the
\* predictor for `leaf` and is suspended; "trap": make_move panicked.
RECURSIVE descend(_, _, _, _, _, _, _)

\* Mutant of follow_edge: the board is not canonicalised to the next player.
follow_edge_keeps_perspective(table, s, cfg, breadcrumbs, to_root_sign, sim, k, action, moved) ==
    IF moved.trap
    THEN [kind |-> "trap", nodes |-> table, rng |-> s, leaf |-> NoLeaf, trail |-> None]
    ELSE descend(table, s, cfg, moved.board,
                 Append(breadcrumbs, <<k, action, moved.next = 1>>),
                 IF moved.next = 1 THEN -to_root_sign ELSE to_root_sign,
                 sim)

\* The loop body after make_move(action, 0) on a node of the table.
follow_edge(table, s, cfg, breadcrumbs, to_root_sign, sim, k, action, moved) ==
    IF moved.trap
    THEN [kind |-> "trap", nodes |-> table, rng |-> s, leaf |-> NoLeaf, trail |-> None]
    ELSE descend(table, s, cfg, canonicalised(moved.board, moved.next),
                 Append(breadcrumbs, <<k, action, moved.next = 1>>),
                 IF moved.next = 1 THEN -to_root_sign ELSE to_root_sign,
                 sim)

\* The loop body at a node of the table, after the root noise.
visit_node(table, s, cfg, b, breadcrumbs, to_root_sign, sim, k, node) ==
    IF node.terminal_value # None
    THEN [kind |-> "done",
          nodes |-> backpropagate(table, breadcrumbs, node.terminal_value[1]),
          rng |-> s, leaf |-> NoLeaf,
          trail |-> traced(table, breadcrumbs, node.terminal_value[1], to_root_sign,
                           k, FALSE)]
    ELSE follow_edge(table, s, cfg, breadcrumbs, to_root_sign, sim, k,
                     select_action(node, cfg.cpuct, cfg.fpu_reduction,
                                   sim.forced_playouts, sim.iteration,
                                   cfg.forced_playout_coefficient),
                     make_move(b,
                               select_action(node, cfg.cpuct, cfg.fpu_reduction,
                                             sim.forced_playouts, sim.iteration,
                                             cfg.forced_playout_coefficient),
                               0))

\* The `if let Some(node) = self.nodes.get_mut(&key)` branch.
enter_node(table, cfg, b, breadcrumbs, to_root_sign, sim, k, noisy) ==
    visit_node([table EXCEPT ![k] = noisy.node], noisy.rng, cfg, b, breadcrumbs,
               to_root_sign, sim, k, noisy.node)

\* Mutant of reach_leaf: the leaf's node is inserted before the predictor is
\* awaited, with the value 0 until the prediction is there.
reach_leaf_inserts_before_await(table, s, b, breadcrumbs, to_root_sign, k, valid, rv) ==
    IF rv # None
    THEN [kind |-> "done",
          nodes |-> backpropagate(insert(table, k, terminal(valid, R(rv[1]), b.round)),
                                  breadcrumbs, R(rv[1])),
          rng |-> s, leaf |-> NoLeaf,
          trail |-> traced(insert(table, k, terminal(valid, R(rv[1]), b.round)),
                           breadcrumbs, R(rv[1]), to_root_sign, k, TRUE)]
    ELSE [kind |-> "await",
          nodes |-> insert(table, k,
                           from_prediction(valid, [len |-> ACTION_SIZE, pi |-> "zeros",
                                                   v |-> R(0)], b.round)),
          rng |-> s, trail |-> None,
          leaf |-> [board |-> b, key |-> k, valid |-> valid,
                    breadcrumbs |-> breadcrumbs, to_root_sign |-> to_root_sign]]

\* The loop body at a board that is not in the table.
reach_leaf(table, s, b, breadcrumbs, to_root_sign, k, valid, rv) ==
    IF rv # None
    THEN [kind |-> "done",
          nodes |-> backpropagate(insert(table, k, terminal(valid, R(rv[1]), b.round)),
                                  breadcrumbs, R(rv[1])),
          rng |-> s, leaf |-> NoLeaf,
          trail |-> traced(insert(table, k, terminal(valid, R(rv[1]), b.round)),
                           breadcrumbs, R(rv[1]), to_root_sign, k, TRUE)]
    ELSE [kind |-> "await", nodes |-> table, rng |-> s, trail |-> None,
          leaf |-> [board |-> b, key |-> k, valid |-> valid,
                    breadcrumbs |-> breadcrumbs, to_root_sign |-> to_root_sign]]

descend(table, s, cfg, b, breadcrumbs, to_root_sign, sim) ==
    IF key(b) \in DOMAIN table
    THEN enter_node(table, cfg, b, breadcrumbs, to_root_sign, sim, key(b),
                    IF sim.apply_dirichlet /\ breadcrumbs = << >>
                    THEN apply_dirichlet(table[key(b)], s, cfg.dirichlet_alpha,
                                         cfg.dirichlet_weight)
                    ELSE [node |-> table[key(b)], rng |-> s])
    ELSE reach_leaf(table, s, b, breadcrumbs, to_root_sign, key(b),
                    valid_moves(b, 0), result_value(b, 0))

run_single_simulation(table, s, cfg, root, apply, iteration, forced_playouts) ==
    descend(table, s, cfg, root, << >>, 1,
            [apply_dirichlet |-> apply, iteration |-> iteration,
             forced_playouts |-> forced_playouts])

\* Mutant of evaluate: the length of pi is not checked.
evaluate_unchecked(prediction) == [ok |-> TRUE, error |-> "", prediction |-> prediction]

\* evaluate after the predictor's promise resolved: the length check.
evaluate(prediction) ==
    IF prediction.len < ACTION_SIZE
    THEN [ok |-> FALSE, error |-> "predictor returned fewer than 162 policy entries",
          prediction |-> prediction]
    ELSE [ok |-> TRUE, error |-> "", prediction |-> prediction]

\* Mutant of expand_leaf: the leaf's value is recorded at the leaf as well.
expand_leaf_counts_leaf(table, leaf, prediction) ==
    LET node == from_prediction(leaf.valid, prediction, leaf.board.round)
    IN  backpropagate(insert(table, leaf.key, record_value(node, node.mean_value)),
                      leaf.breadcrumbs, node.mean_value)

\* run_single_simulation from the resolution of evaluate to its return.
expand_leaf(table, leaf, prediction) ==
    LET node == from_prediction(leaf.valid, prediction, leaf.board.round)
    IN  backpropagate(insert(table, leaf.key, node), leaf.breadcrumbs, node.mean_value)

\* The record of that backpropagation and of the value returned.
expand_leaf_trail(table, leaf, prediction) ==
    traced(insert(table, leaf.key,
                  from_prediction(leaf.valid, prediction, leaf.board.round)),
           leaf.breadcrumbs, prediction.v, leaf.to_root_sign, leaf.key, TRUE)

\* The `for sim in 0..num_sims` loop of search from iteration `sim` on, up
\* to the next suspension ("await"), a panic ("trap") or its end ("finish").
\* ended counts the simulations that returned, before is the table when
\* the simulation that did not return began, shown is the records of the
\* simulations that have returned so far.
RECURSIVE run_simulations(_, _, _, _, _, _, _)

after_simulation(out, table, cfg, st, sim, ended, shown) ==
    IF out.kind = "done"
    THEN run_simulations(out.nodes, out.rng, cfg, st, sim + 1, ended + 1,
                         Append(shown, out.trail[1]))
    ELSE [kind |-> out.kind, nodes |-> out.nodes, rng |-> out.rng, sim |-> sim,
          leaf |-> out.leaf, before |-> table, ended |-> ended, trail |-> shown]

run_simulations(table, s, cfg, st, sim, ended, shown) ==
    IF sim >= st.num_sims
    THEN [kind |-> "finish", nodes |-> table, rng |-> s, sim |-> sim,
          leaf |-> NoLeaf, before |-> table, ended |-> ended, trail |-> shown]
    ELSE after_simulation(
             run_single_simulation(table, s, cfg, st.root,
                 sim = 0 /\ st.full_search /\ RLt(R(0), cfg.dirichlet_weight),
                 sim + 1, st.forced_playouts),
             table, cfg, st, sim, ended, shown)

SEARCH_RESULT_VERSION == 1

\* Mutant of green_value: the root's value is returned as it is.
green_value_unflipped(root_player, q) == q

\* `if root_player == 0 { q } else { -q }`: the value for player 0.

green_value(root_player, q) == IF root_player = 0 THEN q ELSE RNeg(q)

\* The SearchResult built from the root node and its distribution.
search_result(st, node_ref, dist, cleaned) ==
    [nodes |-> cleaned.nodes, rng |-> dist.rng,
     last_cleanup_round |-> cleaned.last_cleanup_round,
     result |-> [kind |-> "ok",
                 version |-> SEARCH_RESULT_VERSION,
                 policy |-> dist.policy,
                 q |-> <<green_value(st.root_player, node_ref.mean_value),
                         RNeg(green_value(st.root_player, node_ref.mean_value))>>,
                 visits |-> dist.visits,
                 full_search |-> st.full_search]]

\* search after maybe_cleanup: the root lookup and root_distribution.
report_root(cleaned, s, cfg, st, k) ==
    IF k \notin DOMAIN cleaned.nodes
    THEN [nodes |-> cleaned.nodes, rng |-> s,
          last_cleanup_round |-> cleaned.last_cleanup_round,
          result |-> [kind |-> "err", error |-> "root node missing after simulations"]]
    ELSE search_result(st, cleaned.nodes[k],
                       root_distribution(s, cfg, cleaned.nodes[k].valid,
                                         cleaned.nodes[k].policy, cleaned.nodes[k].nsa,
                                         st.temperature, st.forced_playouts, st.num_sims),
                       cleaned)

\* search after its simulation loop: cleanup, root lookup, distribution.
finish_search(table, s, last_round, cfg, st) ==
    report_root(IF ~cfg.no_mem_optim
                THEN maybe_cleanup(table, last_round, cfg, st.root.round)
                ELSE [nodes |-> table, last_cleanup_round |-> last_round],
                s, cfg, st, key(st.root))

\* search from its entry to the start of its simulation loop.
\* None when the token's length is not STATE_SIZE.
opened_search(cfg, root, player, temperature, force_full_search, roll) ==
    [root |-> root, root_player |-> player, temperature |-> temperature,
     full_search |-> force_full_search \/ RLt(roll.value, cfg.prob_full_search),
     num_sims |-> num_sims_for(cfg, force_full_search
                                      \/ RLt(roll.value, cfg.prob_full_search)),
     forced_playouts |-> (force_full_search \/ RLt(roll.value, cfg.prob_full_search))
                           /\ cfg.forced_playouts,
     rng |-> roll.rng]

start_search(s, cfg, board_state, player, temperature, force_full_search) ==
    IF Len(board_state) # STATE_SIZE THEN None
    ELSE Some(opened_search(cfg,
                            IF player # 0
                            THEN canonicalised(from_vec(board_state), player)
                            ELSE from_vec(board_state),
                            player, temperature, force_full_search,
                            IF ~force_full_search THEN gen_f32(s)
                            ELSE [value |-> R(0), rng |-> s]))

(***************************************************************************)
(* mcts.rs: MctsConfig, and the inputs of the exploration.                 *)
(***************************************************************************)
MctsConfig_default ==
    [num_simulations |-> 128,
     partial_divisor |-> 4,
     cpuct |-> Rat(11, 4),
     dirichlet_alpha |-> Rat(3, 10),
     dirichlet_weight |-> R(0),
     fpu_reduction |-> Rat(3, 100),
     prob_full_search |-> R(1),
     forced_playouts |-> FALSE,
     forced_playout_coefficient |-> Rat(1, 2),
     no_mem_optim |-> FALSE,
     cleanup_interval |-> 20,
     retain_rounds |-> 5]

\* The configurations a host constructs the engine with: a small budget
\* with full and partial searches, root noise with forced playouts and an
\* eager cleanup, and an empty budget.
Sampling ==
    [MctsConfig_default EXCEPT !.num_simulations = 2, !.partial_divisor = 2,
                               !.prob_full_search = Rat(1, 2)]
Noisy ==
    [MctsConfig_default EXCEPT !.num_simulations = 2, !.dirichlet_weight = Rat(1, 4),
                               !.forced_playouts = TRUE, !.cleanup_interval = 0,
                               !.retain_rounds = 0]
Empty ==
    [MctsConfig_default EXCEPT !.num_simulations = 0, !.partial_divisor = 0,
                               !.prob_full_search = R(0)]

Setup(workers, levels, round) ==
    [workers |-> [i \in Cells |-> IF i \in DOMAIN workers THEN workers[i] ELSE 0],
     levels  |-> [i \in Cells |-> IF i \in DOMAIN levels THEN levels[i] ELSE 0],
     round   |-> round]

to_vec(b) == write_into_slice(b)

Corner == (0 :> 1) @@ (1 :> 2) @@ (5 :> -1) @@ (6 :> -2)
Boxed == (0 :> 1) @@ (4 :> 2) @@ (12 :> -1) @@ (13 :> -2)
BoxedLevels == [i \in {1, 5, 6, 3, 8, 9} |-> 4]
Climb == (6 :> 1) @@ (24 :> 2) @@ (18 :> -1) @@ (19 :> -2)
ClimbLevels == (6 :> 2) @@ (0 :> 3)

\* The positions a host asks about, each with the player to move: the
\* empty board, a position after the placements, a position one move from
\* a win, two positions whose side to move has no legal move, and a token
\* that is one entry short.
Opening == [token |-> to_vec(BoardState_new), player |-> 0]
Placed == [token |-> to_vec(Setup(Corner, << >>, 4)), player |-> 1]
Climbing == [token |-> to_vec(Setup(Climb, ClimbLevels, 12)), player |-> 0]
Stuck0 == [token |-> to_vec(Setup(Boxed, BoxedLevels, 30)), player |-> 0]
Stuck1 == [token |-> to_vec(canonicalised(Setup(Boxed, BoxedLevels, 30), 1)), player |-> 1]
Short == [token |-> SubSeq(to_vec(BoardState_new), 1, STATE_SIZE - 1), player |-> 0]

\* The engines and positions of the exploration.
Scenarios ==
    {<<Sampling, Opening>>, <<Sampling, Placed>>, <<Sampling, Climbing>>,
     <<Sampling, Stuck0>>, <<Sampling, Stuck1>>, <<Sampling, Short>>,
     <<Noisy, Placed>>, <<Noisy, Stuck1>>, <<Empty, Climbing>>}

Temperatures == {R(0), R(1)}
Seeds == {1}

\* What the predictor's promise resolves with.
Predictions ==
    {[len |-> ACTION_SIZE, pi |-> "zeros", v |-> R(-1)],
     [len |-> ACTION_SIZE, pi |-> "odd", v |-> Rat(1, 2)],
     [len |-> ACTION_SIZE - 1, pi |-> "zeros", v |-> R(0)]}

EmptyTable == [k \in {} |-> 0]
IdleTask == [pc |-> "idle", st |-> << >>, sim |-> 0, leaf |-> NoLeaf, before |-> EmptyTable]
NoResult == [kind |-> "none"]
NoToken == [op |-> "none", bytes |-> << >>, player |-> 0, moves |-> 0]
NoQuery == [temperature |-> R(0), force_full_search |-> FALSE, seed |-> None,
            fresh |-> FALSE, known |-> None, roll |-> R(0)]

\* The edge visits of the root of a call about `position` in `table`, the
\* table the call begins with: None when the root is not in it.
KnownRoot(table, position) ==
    IF Len(position.token) # STATE_SIZE THEN None
    ELSE LET k == key(canonicalised(from_vec(position.token), position.player))
         IN  IF k \in DOMAIN table THEN Some(table[k].nsa) ELSE None

(***************************************************************************)
(* Spec: a host with one SantoriniBoard.                                   *)
(***************************************************************************)
\* The host plays inside the 2x3 block in the board's top-left corner (the
\* legality mask itself is always the full 5x5 one); it places player 0's
\* workers on the first two cells of row 0 and player 1's below them.
PlayArea == {idx(0, 0), idx(0, 1), idx(0, 2), idx(1, 0), idx(1, 1), idx(1, 2)}
PlaceArea(p) == IF p = 0 THEN {idx(0, 0), idx(0, 1)} ELSE {idx(1, 0), idx(1, 1)}

\* The action arguments the host tries in contract-violating calls: the
\* placement cells, the ends of the placement and action ranges, and 16-bit
\* values whose worker field (action / 81) is 255, 256 or 257 modulo 256.
ProbeActions ==
    PlaceArea(0) \cup PlaceArea(1) \cup {24, 25, 161, 162, 200, 65535}
      \cup {255 * 81 + 9 * m + d : m \in {3, 5}, d \in {3, 5}}
      \cup {256 * 81 + 9 * m + d : m \in {5, 7}, d \in {1, 3}}
      \cup {257 * 81 + 9 * 5 + 3, 512 * 81 + 9 * 7 + 1}

CellOf(pos) == idx(pos[1], pos[2])

\* The cells a mask-legal action of `player` writes (target and build cell).
Touched(b, action, player) ==
    IF next_placement(b) # None THEN {action}
    ELSE LET d == decode_action(action)
             from == find_worker(b, (d.worker + 1) * (IF player = 0 THEN 1 ELSE -1))[1]
             to == apply_direction(from, d.move_direction)[1]
         IN  {CellOf(to), CellOf(apply_direction(to, d.build_direction)[1])}

\* SantoriniBoard::apply_move(action: u16, player: u8).
apply_move(b, action, player) == make_move(b, action, player)

\* The input-contract violations of apply_move.
Violation(b, action, player) ==
    IF action >= ACTION_SIZE THEN TRUE
    ELSE IF next_placement(b) = None THEN FALSE
    ELSE IF action >= PLACEMENT_ACTIONS THEN TRUE
    ELSE IF next_placement(b)[1][1] # player THEN TRUE
    ELSE b.workers[action] # 0

Init ==
    /\ board = BoardState_new
    /\ next_player = 0
    /\ trapped = FALSE
    /\ call = [kind |-> "none", action |-> 0, player |-> 0]
    /\ play = "legal"
    /\ token = NoToken
    /\ config = MctsConfig_default
    /\ asked = [token |-> to_vec(BoardState_new), player |-> 0]
    /\ nodes = EmptyTable
    /\ rng = 0
    /\ last_cleanup_round = 0
    /\ task = IdleTask
    /\ query = NoQuery
    /\ result = NoResult
    /\ meter = [budget |-> 0, sims |-> 0, terminal |-> 0, calls |-> 0]
    /\ oracle = EmptyTable
    /\ honest = TRUE
    /\ seeded = None
    /\ prev = None
    /\ last = None
    /\ failed = None
    /\ answer = None
    /\ used = [searches |-> 0, engines |-> 1]
    /\ sweep = None
    /\ trail = None
    /\ log = << >>

\* apply_move with a mask-legal action, by the player the last call returned.
LegalMove ==
    /\ play \in {"legal", "over"}
    /\ board.round < MaxPlayRound
    /\ play' = IF result_value(board, next_player) # None THEN "over" ELSE play
    /\ \E a \in LET mask == valid_moves(board, next_player)
                IN  {x \in Actions : mask[x]} :
         /\ Touched(board, a, next_player) \subseteq
                IF next_placement(board) # None THEN PlaceArea(next_player) ELSE PlayArea
         /\ LET r == apply_move(board, a, next_player)
            IN  /\ trapped' = r.trap
                /\ board' = r.board
                /\ next_player' = IF r.trap THEN next_player ELSE r.next
                /\ call' = [kind |-> "move", action |-> 0, player |-> 0]
    /\ UNCHANGED token
    /\ UNCHANGED searchVars

\* apply_move with arguments that violate its input contract.
Probe ==
    /\ play \in {"legal", "over"}
    /\ board.round <= MaxProbeRound
    /\ \E a \in ProbeActions, p \in Players :
         /\ Violation(board, a, p)
         /\ LET r == apply_move(board, a, p)
            IN  /\ trapped' = r.trap
                /\ board' = r.board
                /\ next_player' = IF r.trap THEN next_player ELSE r.next
                /\ call' = [kind |-> "probe", action |-> a, player |-> p]
                /\ play' = IF r.trap THEN play ELSE "off"
    /\ UNCHANGED token
    /\ UNCHANGED searchVars

Next == LegalMove \/ Probe

Spec == Init /\ [][Next]_vars

(***************************************************************************)
(* SpecSearch: a host with one SantoriniMcts at a time.  A step runs the   *)
(* engine from one suspension point of the search future to the next.      *)
(***************************************************************************)
\* The search future has returned `fin`.
Returned(fin, r, q, m) ==
    /\ nodes' = fin.nodes
    /\ rng' = fin.rng
    /\ last_cleanup_round' = fin.last_cleanup_round
    /\ task' = IdleTask
    /\ result' = fin.result
    /\ sweep' = Some(r.nodes)
    /\ trail' = (IF Len(r.trail) > Len(log) THEN Some(r.trail[Len(r.trail)]) ELSE None)
    /\ log' = r.trail
    /\ meter' = [m EXCEPT !.sims = r.sim, !.terminal = @ + r.ended]
    /\ prev' = IF fin.result.kind = "ok" THEN last ELSE prev
    /\ last' = IF fin.result.kind = "ok"
               THEN Some([query |-> q, out |-> fin.result])
               ELSE last

\* The search future has run up to `r`.
Settled(r, st, q, m) ==
    IF r.kind = "finish"
    THEN Returned(finish_search(r.nodes, r.rng, last_cleanup_round, config, st), r, q, m)
    ELSE /\ nodes' = r.nodes
         /\ rng' = r.rng
         /\ UNCHANGED <<last_cleanup_round, prev, last>>
         /\ task' = [pc |-> IF r.kind = "await" THEN "await" ELSE "trapped",
                     st |-> st, sim |-> r.sim, leaf |-> r.leaf, before |-> r.before]
         /\ result' = [kind |-> IF r.kind = "await" THEN "pending" ELSE "trap"]
         /\ sweep' = None
         /\ trail' = (IF Len(r.trail) > Len(log) THEN Some(r.trail[Len(r.trail)]) ELSE None)
         /\ log' = r.trail
         /\ meter' = [m EXCEPT !.sims = r.sim + 1, !.terminal = @ + r.ended,
                               !.calls = @ + (IF r.kind = "await" THEN 1 ELSE 0)]

\* The search future runs on from iteration sim with table and rng state s.
Continue(table, s, st, sim, q, m, shown) ==
    Settled(run_simulations(table, s, config, st, sim, 0, shown), st, q, m)

InitSearch ==
    /\ board = BoardState_new /\ next_player = 0 /\ trapped = FALSE
    /\ call = [kind |-> "none", action |-> 0, player |-> 0] /\ play = "legal"
    /\ token = NoToken
    /\ \E scenario \in Scenarios : config = scenario[1] /\ asked = scenario[2]
    /\ nodes = EmptyTable
    /\ rng \in RngStates                      \* SmallRng::from_entropy()
    /\ last_cleanup_round = 0
    /\ task = IdleTask
    /\ query = NoQuery
    /\ result = NoResult
    /\ meter = [budget |-> 0, sims |-> 0, terminal |-> 0, calls |-> 0]
    /\ oracle = EmptyTable
    /\ honest = TRUE
    /\ seeded = None
    /\ prev = None
    /\ last = None
    /\ failed = None
    /\ answer = None
    /\ used = [searches |-> 0, engines |-> 1]
    /\ sweep = None
    /\ trail = None
    /\ log = << >>

\* new SantoriniMcts(config, predictor), replacing the engine in use.
NewEngine ==
    /\ task.pc = "idle"
    /\ used.searches > 0
    /\ used.engines < MaxEngines
    /\ nodes' = EmptyTable
    /\ rng' \in RngStates
    /\ last_cleanup_round' = 0
    /\ seeded' = None
    /\ failed' = None
    /\ result' = NoResult
    /\ used' = [used EXCEPT !.engines = @ + 1]
    /\ sweep' = None
    /\ trail' = None
    /\ log' = << >>
    /\ UNCHANGED <<config, asked, task, query, meter, oracle, honest, prev, last, answer>>
    /\ UNCHANGED boardVars

SetSeed ==
    /\ task.pc = "idle"
    /\ seeded = None
    /\ \E seed \in Seeds :
         /\ rng' = seed_from_u64(seed)
         /\ seeded' = Some(seed)
    /\ sweep' = None
    /\ trail' = None
    /\ log' = log
    /\ UNCHANGED <<config, asked, nodes, last_cleanup_round, task, query, result,
                   meter, oracle, honest, prev, last, failed, answer, used>>
    /\ UNCHANGED boardVars

\* search from its entry to its first suspension or its return.
Opened(opened, q) ==
    IF opened = None
    THEN /\ result' = [kind |-> "err", error |-> "board state must contain 75 entries"]
         /\ meter' = [budget |-> 0, sims |-> 0, terminal |-> 0, calls |-> 0]
         /\ sweep' = None
         /\ trail' = None
         /\ log' = log
         /\ UNCHANGED <<nodes, rng, last_cleanup_round, task, prev, last>>
    ELSE Continue(nodes, opened[1].rng, opened[1], 0, q,
                  [budget |-> opened[1].num_sims, sims |-> 0, terminal |-> 0, calls |-> 0],
                  log)

\* search(asked.token, asked.player, temperature, force_full_search).
Search ==
    /\ task.pc = "idle"
    /\ used.searches < MaxSearches
    /\ used' = [used EXCEPT !.searches = @ + 1]
    /\ seeded' = None
    /\ answer' = None
    /\ \E temperature \in Temperatures, force_full_search \in BOOLEAN :
         \* the host repeats the arguments of its first call
         /\ used.searches > 0 =>
               /\ temperature = query.temperature
               /\ force_full_search = query.force_full_search
         /\ query' = [temperature |-> temperature,
                      force_full_search |-> force_full_search,
                      seed |-> seeded,
                      fresh |-> (nodes = EmptyTable /\ last_cleanup_round = 0),
                      known |-> KnownRoot(nodes, asked),
                      roll |-> gen_f32(rng).value]
         /\ Opened(start_search(rng, config, asked.token, asked.player,
                                temperature, force_full_search),
                   [temperature |-> temperature,
                    force_full_search |-> force_full_search,
                    seed |-> seeded,
                    fresh |-> (nodes = EmptyTable /\ last_cleanup_round = 0),
                    known |-> KnownRoot(nodes, asked),
                    roll |-> gen_f32(rng).value])
    /\ UNCHANGED <<config, asked, oracle, honest, failed>>
    /\ UNCHANGED boardVars

\* evaluate returns `ev` to run_single_simulation.
Resolved(ev, k) ==
    IF ~ev.ok
    THEN /\ result' = [kind |-> "err", error |-> ev.error]
         /\ task' = IdleTask
         /\ failed' = Some([key |-> k, kept |-> Cardinality(DOMAIN nodes)])
         /\ sweep' = None
         /\ trail' = None
         /\ log' = log
         /\ UNCHANGED <<nodes, rng, last_cleanup_round, meter, prev, last>>
    ELSE /\ Continue(expand_leaf(nodes, task.leaf, ev.prediction), rng,
                     task.st, task.sim + 1, query, meter,
                     Append(log, expand_leaf_trail(nodes, task.leaf, ev.prediction)[1]))
         /\ UNCHANGED failed

\* The predictor's promise resolves and the search future runs on.
PredictorResolves ==
    /\ task.pc = "await"
    /\ \E prediction \in Predictions :
         /\ oracle' = IF task.leaf.key \in DOMAIN oracle THEN oracle
                      ELSE insert(oracle, task.leaf.key, prediction)
         /\ honest' = (honest /\ (task.leaf.key \in DOMAIN oracle
                                     => oracle[task.leaf.key] = prediction))
         /\ answer' = Some(prediction)
         /\ Resolved(evaluate(prediction), task.leaf.key)
    /\ UNCHANGED <<config, asked, query, seeded, used>>
    /\ UNCHANGED boardVars

\* The predictor throws or its promise rejects: evaluate returns the error.
PredictorRejects ==
    /\ task.pc = "await"
    /\ result' = [kind |-> "err", error |-> "predictor failed"]
    /\ task' = IdleTask
    /\ answer' = None
    /\ sweep' = None
    /\ trail' = None
    /\ log' = log
    /\ UNCHANGED <<config, asked, nodes, rng, last_cleanup_round, query, meter,
                   oracle, honest, seeded, prev, last, failed, used>>
    /\ UNCHANGED boardVars

NextSearch == NewEngine \/ SetSeed \/ Search \/ PredictorResolves \/ PredictorRejects

SpecSearch == InitSearch /\ [][NextSearch]_vars

(***************************************************************************)
(* SpecDrop: a host that may drop the future of search while it is         *)
(* suspended on the predictor, and call search again on the same engine.   *)
(***************************************************************************)
\* The future is dropped at the await of evaluate: its locals (board,
\* breadcrumbs, to_root_sign) are gone, the engine's fields stay as they are.
Dropped ==
    /\ task.pc = "await"
    /\ task' = IdleTask
    /\ result' = [kind |-> "dropped"]
    /\ answer' = None
    /\ sweep' = None
    /\ trail' = None
    /\ UNCHANGED <<config, asked, nodes, rng, last_cleanup_round, query, meter,
                   oracle, honest, seeded, prev, last, failed, used, log>>
    /\ UNCHANGED boardVars

NextDrop == Search \/ PredictorResolves \/ Dropped

SpecDrop == InitSearch /\ [][NextDrop]_vars

(***************************************************************************)
(* SpecToken: a host with one SantoriniBoard that also exchanges tokens    *)
(* with it (setState, getState, canonicalState, reset).                    *)
(***************************************************************************)
\* The Int8Arrays the host passes to setState: the empty board, a position
\* after the placements early and late in the round count, an array whose
\* round byte is negative and whose other third bytes are not 0, and an
\* array that is one entry short.
LateRounds == {126, 127}
Ragged ==
    [c \in 1 .. STATE_SIZE |->
        IF c = 3 THEN -3
        ELSE IF c % CHANNELS = 0 THEN 7
        ELSE to_vec(Setup(Corner, (2 :> 1), 5))[c]]
Tokens ==
    {to_vec(BoardState_new), to_vec(Setup(Corner, << >>, 4)), Ragged, Short.token}
      \cup {to_vec(Setup(Corner, (2 :> 3) @@ (7 :> 4), r)) : r \in LateRounds}

\* The action arguments of the host's apply_move calls that the mask does
\* not allow: a move and a build in direction 4, the first index past the
\* action range, and an index whose worker field is 256.
FoulActions == {encode_action(0, 4, 4), ACTION_SIZE, 256 * 81 + 9 * 5 + 3}

\* SantoriniBoard::set_state(data).
set_state(b, data) ==
    IF Len(data) # STATE_SIZE THEN Trap(b)
    ELSE [trap |-> FALSE, board |-> from_vec(data), next |-> 0]

\* SantoriniBoard::get_state().
get_state(b) == to_vec(b)

\* SantoriniBoard::canonical_state(player).
canonical_state(b, player) == to_vec(canonicalised(b, player))

\* SantoriniBoard::reset().
reset(b) == BoardState_new

InitToken ==
    /\ board = BoardState_new
    /\ next_player = 0
    /\ trapped = FALSE
    /\ call = [kind |-> "none", action |-> 0, player |-> 0]
    /\ play = "legal"
    /\ token = NoToken
    /\ config = MctsConfig_default
    /\ asked = [token |-> to_vec(BoardState_new), player |-> 0]
    /\ nodes = EmptyTable
    /\ rng = 0
    /\ last_cleanup_round = 0
    /\ task = IdleTask
    /\ query = NoQuery
    /\ result = NoResult
    /\ meter = [budget |-> 0, sims |-> 0, terminal |-> 0, calls |-> 0]
    /\ oracle = EmptyTable
    /\ honest = TRUE
    /\ seeded = None
    /\ prev = None
    /\ last = None
    /\ failed = None
    /\ answer = None
    /\ used = [searches |-> 0, engines |-> 1]
    /\ sweep = None
    /\ trail = None
    /\ log = << >>

SetState ==
    /\ \E data \in Tokens :
         LET r == set_state(board, data)
         IN  /\ board' = r.board
             /\ trapped' = r.trap
             /\ token' = [op |-> "set", bytes |-> data, player |-> 0,
                          moves |-> IF r.trap THEN token.moves ELSE 0]
    /\ play' = "off"
    /\ next_player' = 0
    /\ call' = [kind |-> "none", action |-> 0, player |-> 0]
    /\ UNCHANGED searchVars

GetState ==
    /\ token.op # "get"
    /\ token' = [token EXCEPT !.op = "get", !.bytes = get_state(board), !.player = 0]
    /\ trapped' = FALSE
    /\ UNCHANGED <<board, next_player, call, play>>
    /\ UNCHANGED searchVars

CanonicalState ==
    /\ \E p \in Players :
         token' = [token EXCEPT !.op = "canon", !.bytes = canonical_state(board, p),
                                !.player = p]
    /\ trapped' = FALSE
    /\ UNCHANGED <<board, next_player, call, play>>
    /\ UNCHANGED searchVars

Reset ==
    /\ token.op # "none"
    /\ board' = reset(board)
    /\ trapped' = FALSE
    /\ token' = [op |-> "reset", bytes |-> << >>, player |-> 0, moves |-> 0]
    /\ next_player' = 0
    /\ play' = "legal"
    /\ call' = [kind |-> "none", action |-> 0, player |-> 0]
    /\ UNCHANGED searchVars

\* apply_move by either player: an action of that player's mask inside the
\* host's play area, or one of FoulActions.
ApplyMove ==
    /\ token.moves < MaxTokenMoves
    /\ \E p \in Players :
         \E a \in LET mask == valid_moves(board, p)
                  IN  {x \in Actions :
                         /\ mask[x]
                         /\ (next_placement(board) # None
                                => next_placement(board)[1][1] = p)
                         /\ Touched(board, x, p) \subseteq
                               IF next_placement(board) # None THEN PlaceArea(p)
                               ELSE PlayArea}
                      \cup FoulActions :
           LET r == apply_move(board, a, p)
           IN  /\ trapped' = r.trap
               /\ board' = r.board
               /\ next_player' = IF r.trap THEN next_player ELSE r.next
               /\ call' = [kind |-> "move", action |-> a, player |-> p]
               /\ play' = IF a \in FoulActions /\ ~r.trap THEN "off" ELSE play
    /\ token' = [op |-> "move", bytes |-> << >>, player |-> 0, moves |-> token.moves + 1]
    /\ UNCHANGED searchVars

NextToken == SetState \/ GetState \/ CanonicalState \/ Reset \/ ApplyMove

SpecToken == InitToken /\ [][NextToken]_vars

(***************************************************************************)
(* SpecTrajectory: a host that asks one engine about the positions of a    *)
(* game record, one search call per round, with a predictor that gives the *)
(* same answer for every board.                                            *)
(***************************************************************************)
\* The engines of the record: the default cleanup (every 20 rounds, 5
\* rounds kept), an eager one, one that keeps more rounds than were
\* played, one that cleans after every call, and one with no_mem_optim.
Keeper == [MctsConfig_default EXCEPT !.num_simulations = 2]
Eager == [Keeper EXCEPT !.cleanup_interval = 2, !.retain_rounds = 1]
Deep == [Keeper EXCEPT !.cleanup_interval = 5, !.retain_rounds = 50]
Prompt == [Keeper EXCEPT !.cleanup_interval = 0, !.retain_rounds = 0]
Hoarder == [Eager EXCEPT !.no_mem_optim = TRUE]
TrajectoryConfigs == {Keeper, Eager, Deep, Prompt, Hoarder}

\* The position of round r: the workers come to cells 6, 8, 16, 18 in the
\* order +1, +2, -1, -2, and every later round has built one more level on
\* the cells of BuildOrder, each up to level 3.
Places == <<6, 8, 16, 18>>
PlacedIds == <<1, 2, -1, -2>>
BuildOrder == <<0, 1, 2, 3, 4, 20, 21, 22, 23, 24, 10, 14, 12, 5, 9>>
TrajectoryBoard(r) ==
    [workers |-> [i \in Cells |->
                    IF \E k \in 1 .. 4 : Places[k] = i /\ k <= r
                    THEN PlacedIds[CHOOSE k \in 1 .. 4 : Places[k] = i]
                    ELSE 0],
     levels  |-> [i \in Cells |->
                    IF \E k \in 1 .. Len(BuildOrder) : BuildOrder[k] = i
                    THEN Max(0, Min(3, r - 4 - 3 * ((CHOOSE k \in 1 .. Len(BuildOrder) :
                                                       BuildOrder[k] = i) - 1)))
                    ELSE 0],
     round   |-> r]
TrajectoryPosition(r) ==
    [token |-> to_vec(TrajectoryBoard(r)),
     player |-> IF r < 2 THEN 0 ELSE IF r < 4 THEN 1 ELSE r % 2]

\* What the predictor of the record resolves with.
TrajectoryPrediction == [len |-> ACTION_SIZE, pi |-> "zeros", v |-> Rat(1, 2)]

InitTrajectory ==
    /\ board = BoardState_new /\ next_player = 0 /\ trapped = FALSE
    /\ call = [kind |-> "none", action |-> 0, player |-> 0] /\ play = "legal"
    /\ token = NoToken
    /\ config \in TrajectoryConfigs
    /\ asked = TrajectoryPosition(0)
    /\ nodes = EmptyTable
    /\ rng \in RngStates
    /\ last_cleanup_round = 0
    /\ task = IdleTask
    /\ query = NoQuery
    /\ result = NoResult
    /\ meter = [budget |-> 0, sims |-> 0, terminal |-> 0, calls |-> 0]
    /\ oracle = EmptyTable
    /\ honest = TRUE
    /\ seeded = None
    /\ prev = None
    /\ last = None
    /\ failed = None
    /\ answer = None
    /\ used = [searches |-> 0, engines |-> 1]
    /\ sweep = None
    /\ trail = None
    /\ log = << >>

\* search(token of the next round, its player, 1.0, true).
TrajectorySearch ==
    /\ task.pc = "idle"
    /\ used.searches < MaxTrajectoryRound
    /\ used' = [used EXCEPT !.searches = @ + 1]
    /\ asked' = TrajectoryPosition(used.searches + 1)
    /\ seeded' = None
    /\ answer' = None
    /\ query' = [temperature |-> R(1), force_full_search |-> TRUE, seed |-> None,
                 fresh |-> (nodes = EmptyTable /\ last_cleanup_round = 0),
                 known |-> KnownRoot(nodes, TrajectoryPosition(used.searches + 1)),
                 roll |-> R(0)]
    /\ Opened(start_search(rng, config, TrajectoryPosition(used.searches + 1).token,
                           TrajectoryPosition(used.searches + 1).player, R(1), TRUE),
              [temperature |-> R(1), force_full_search |-> TRUE, seed |-> None,
               fresh |-> (nodes = EmptyTable /\ last_cleanup_round = 0),
               known |-> KnownRoot(nodes, TrajectoryPosition(used.searches + 1)),
               roll |-> R(0)])
    /\ UNCHANGED <<config, oracle, honest, failed>>
    /\ UNCHANGED boardVars

\* The predictor's promise resolves and the search future runs on.
TrajectoryAnswer ==
    /\ task.pc = "await"
    /\ answer' = Some(TrajectoryPrediction)
    /\ Resolved(evaluate(TrajectoryPrediction), task.leaf.key)
    /\ UNCHANGED <<config, asked, query, seeded, used, oracle, honest>>
    /\ UNCHANGED boardVars

NextTrajectory == TrajectorySearch \/ TrajectoryAnswer

SpecTrajectory == InitTrajectory /\ [][NextTrajectory]_vars

(***************************************************************************)
(* SpecDescent: a host that asks a new engine with a budget of five        *)
(* simulations, once, about a position of the placement phase or the first *)
(* position of the movement phase, with the player whose turn it is, or    *)
(* about a position whose token carries a late round.                      *)
(***************************************************************************)
Digger == [MctsConfig_default EXCEPT !.num_simulations = 5]
Pressed == [Digger EXCEPT !.forced_playouts = TRUE, !.dirichlet_weight = Rat(1, 4)]

DescentRoots ==
    {TrajectoryPosition(r) : r \in 0 .. 4}
      \cup {[token |-> to_vec(Setup(Corner, << >>, r)), player |-> 0] : r \in LateRounds}

InitDescent ==
    /\ board = BoardState_new /\ next_player = 0 /\ trapped = FALSE
    /\ call = [kind |-> "none", action |-> 0, player |-> 0] /\ play = "legal"
    /\ token = NoToken
    /\ config \in {Digger, Pressed}
    /\ asked \in DescentRoots
    /\ nodes = EmptyTable
    /\ rng \in RngStates
    /\ last_cleanup_round = 0
    /\ task = IdleTask
    /\ query = NoQuery
    /\ result = NoResult
    /\ meter = [budget |-> 0, sims |-> 0, terminal |-> 0, calls |-> 0]
    /\ oracle = EmptyTable
    /\ honest = TRUE
    /\ seeded = None
    /\ prev = None
    /\ last = None
    /\ failed = None
    /\ answer = None
    /\ used = [searches |-> 0, engines |-> 1]
    /\ sweep = None
    /\ trail = None
    /\ log = << >>

\* search(asked.token, asked.player, 1.0, true), the one call of the host.
DescentSearch ==
    /\ task.pc = "idle"
    /\ used.searches = 0
    /\ used' = [used EXCEPT !.searches = @ + 1]
    /\ seeded' = None
    /\ answer' = None
    /\ query' = [temperature |-> R(1), force_full_search |-> TRUE, seed |-> None,
                 fresh |-> TRUE, known |-> KnownRoot(nodes, asked),
                 roll |-> R(0)]
    /\ Opened(start_search(rng, config, asked.token, asked.player, R(1), TRUE),
              [temperature |-> R(1), force_full_search |-> TRUE, seed |-> None,
               fresh |-> TRUE, known |-> KnownRoot(nodes, asked),
               roll |-> R(0)])
    /\ UNCHANGED <<config, asked, oracle, honest, failed>>
    /\ UNCHANGED boardVars

NextDescent == DescentSearch \/ PredictorResolves

SpecDescent == InitDescent /\ [][NextDescent]_vars

(***************************************************************************)
(* The rules of the game, stated on cells and coordinates.                 *)
(***************************************************************************)
WorkerIds == {1, 2, -1, -2}
CellsHolding(b, w) == {i \in Cells : b.workers[i] = w}
AllPlaced(b) == \A w \in WorkerIds : CellsHolding(b, w) # {}
\* Owner of the first worker, in the order +1, +2, -1, -2, that is on no cell.
PendingOwner(b) ==
    IF CellsHolding(b, 1) = {} \/ CellsHolding(b, 2) = {} THEN 0 ELSE 1
RowOf(i) == i \div 5
ColOf(i) == i % 5
DirDy(m) == (m \div 3) - 1
DirDx(m) == (m % 3) - 1
Inside(y, x) == y >= 0 /\ y <= 4 /\ x >= 0 /\ x <= 4
Loss(p) == IF p = 0 THEN -1 ELSE 1

\* The cell of worker w (0 or 1) of player p.
Origin(b, p, w) ==
    CHOOSE i \in Cells : b.workers[i] = (IF p = 0 THEN w + 1 ELSE -(w + 1))

\* Whether the rules allow placing on the cell of index a.
RulePlacement(b, a) == a < 25 /\ b.workers[a] = 0

\* Whether the rules allow the worker on cell o to move in direction m and
\* then build in direction d.
RuleMove(b, o, m, d) ==
    LET ty == RowOf(o) + DirDy(m)
        tx == ColOf(o) + DirDx(m)
        t == 5 * ty + tx
        cy == ty + DirDy(d)
        cx == tx + DirDx(d)
        c == 5 * cy + cx
    IN  /\ m # 4
        /\ d # 4
        /\ Inside(ty, tx)
        /\ b.workers[t] = 0
        /\ b.levels[t] <= 3
        /\ b.levels[t] <= b.levels[o] + 1
        /\ Inside(cy, cx)
        /\ b.levels[c] < 4
        /\ (b.workers[c] = 0 \/ c = o)

\* The mask the rules give player p on board b: index a stands for a
\* placement while a worker is unplaced, and for the move of worker a / 81
\* in direction (a % 81) / 9 with a build in direction a % 9 afterwards.
RuleMask(b, p) ==
    IF ~AllPlaced(b) THEN [a \in Actions |-> RulePlacement(b, a)]
    ELSE LET o0 == Origin(b, p, 0)
             o1 == Origin(b, p, 1)
         IN  [a \in Actions |->
                RuleMove(b, IF a < 81 THEN o0 ELSE o1, (a % 81) \div 9, a % 9)]

(***************************************************************************)
(* Claims about the board (checked under Spec).                            *)
(***************************************************************************)
\* C1 (as amended): in every state of legal play and for either player p,
\* valid_moves(p) sets exactly the rule-legal bits, and make_move(a, p)
\* completes without trapping for every action a set in the mask, provided
\* that in the placement phase p is the owner of the pending worker.
C1_MaskIsRuleLegal ==
    play # "off" =>
      \A p \in Players :
        LET mask == valid_moves(board, p)
        IN  /\ mask = RuleMask(board, p)
            /\ (AllPlaced(board) \/ p = PendingOwner(board)) =>
                  \A a \in Actions : mask[a] => ~make_move(board, a, p).trap

\* C1 as stated: make_move(a, p) completes without trapping for every action
\* set in valid_moves(p), for either player p.
C1_Original ==
    play # "off" =>
      \A p \in Players :
        LET mask == valid_moves(board, p)
        IN  /\ mask = RuleMask(board, p)
            /\ \A a \in Actions : mask[a] => ~make_move(board, a, p).trap

\* A movement-phase position of legal play, after some builds, in which the
\* side to move has a legal action that builds on the cell it leaves.
C1_Witness ==
    /\ play = "legal"
    /\ call.kind = "move"
    /\ AllPlaced(board)
    /\ \E i \in Cells : board.levels[i] >= 2
    /\ LET mask == valid_moves(board, next_player)
       IN  \E a \in Actions : mask[a] /\ ((a % 81) \div 9) + (a % 9) = 8

\* C2: under legal play each of the worker values +1, +2, -1, -2 is on at
\* most one cell, and from the fourth committed action on (all four placed)
\* each is on exactly one cell.
C2_WorkersUnique ==
    play # "off" =>
      /\ \A w \in WorkerIds : Cardinality(CellsHolding(board, w)) <= 1
      /\ \A i \in Cells : board.workers[i] \in WorkerIds \cup {0}
      /\ board.round >= 4 =>
            \A w \in WorkerIds : Cardinality(CellsHolding(board, w)) = 1

\* Legal play has moved workers at least twice after the four placements.
C2_Witness ==
    /\ play = "legal"
    /\ call.kind = "move"
    /\ board.round >= 6
    /\ AllPlaced(board)

\* What C3 says result_value(p) returns.
C3_Expected(b, p) ==
    IF ~AllPlaced(b) THEN None
    ELSE IF \E i \in Cells : b.workers[i] > 0 /\ b.levels[i] = 3 THEN Some(1)
    ELSE IF \E i \in Cells : b.workers[i] < 0 /\ b.levels[i] = 3 THEN Some(-1)
    ELSE LET mask == valid_moves(b, p)
         IN  IF \A a \in Actions : ~mask[a] THEN Some(Loss(p)) ELSE None

\* C3: result_value(p) is no value while a worker is unplaced, else +1 if
\* a player-0 worker is on level 3, else -1 if a player-1 worker is, else a
\* loss for p if p has no legal action, else no value; and in legal play a
\* side to move without a legal action always gets a terminal loss.
C3_ResultValue ==
    play # "off" =>
      /\ \A p \in Players : result_value(board, p) = C3_Expected(board, p)
      /\ ( /\ play = "legal"
           /\ AllPlaced(board)
           /\ RuleMask(board, next_player) = [a \in Actions |-> FALSE] )
         => result_value(board, next_player) = Some(Loss(next_player))

\* Legal play has reached a position whose side to move has no legal action
\* while no worker stands on level 3.
C3_Witness ==
    /\ play = "legal"
    /\ AllPlaced(board)
    /\ \A i \in Cells : board.workers[i] # 0 => board.levels[i] # 3
    /\ valid_moves(board, next_player) = [a \in Actions |-> FALSE]
    /\ result_value(board, next_player) = Some(Loss(next_player))

C7_FailFast ==
    [][(call'.kind = "probe") => (trapped' /\ board' = board)]_vars

\* The cell a movement action of player p moves to, and the cell it builds on.
MoveTarget(b, p, a) ==
    LET o == Origin(b, p, a \div 81)
    IN  5 * (RowOf(o) + DirDy((a % 81) \div 9)) + ColOf(o) + DirDx((a % 81) \div 9)
BuildCell(b, p, a) ==
    LET t == MoveTarget(b, p, a)
    IN  5 * (RowOf(t) + DirDy(a % 9)) + ColOf(t) + DirDx(a % 9)

\* The levels and workers of a position of legal play.
C13_Position ==
    play # "off" =>
      /\ \A i \in Cells : board.levels[i] \in 0 .. 4
      /\ \A i \in Cells : board.workers[i] # 0 => board.levels[i] <= 3
      /\ AllPlaced(board) =>
            \A p \in Players :
              LET mask == valid_moves(board, p)
              IN  \A a \in Actions :
                    mask[a] =>
                      /\ board.levels[MoveTarget(board, p, a)] < 4
                      /\ board.levels[BuildCell(board, p, a)] < 4
                      /\ board.levels[BuildCell(board, p, a)] = 3 =>
                            make_move(board, a, p).board.levels[BuildCell(board, p, a)] = 4

\* C13: in legal play every level is in 0..4 and no worker stands on a
\* level-4 cell; no action the mask allows moves onto or builds on a
\* level-4 cell, and one that builds on a level-3 cell makes it level 4; an
\* action changes no level but that of the one cell it builds on, which it
\* raises by one, so no level decreases and a level of 4 stays 4.
C13_Levels ==
    /\ []C13_Position
    /\ [][(play' # "off" /\ call'.kind = "move")
            => /\ \A i \in Cells :
                    /\ board'.levels[i] >= board.levels[i]
                    /\ board'.levels[i] <= board.levels[i] + 1
                    /\ board.levels[i] = 4 => board'.levels[i] = 4
               /\ Cardinality({i \in Cells : board'.levels[i] # board.levels[i]}) <= 1]_vars

\* Legal play has built a cell up to level 4 next to a worker that stands
\* on level 3 or 2, and has gone on after that.
C13_Witness ==
    /\ play # "off"
    /\ call.kind = "move"
    /\ \E i \in Cells, j \in Cells :
          /\ board.levels[i] = 4
          /\ board.workers[j] # 0
          /\ board.levels[j] >= 2
          /\ RowOf(i) - RowOf(j) \in {-1, 0, 1}
          /\ ColOf(i) - ColOf(j) \in {-1, 0, 1}

\* The side to move after `mover` has committed an action that led to b.
C18_Expected(b, mover) ==
    IF ~AllPlaced(b) THEN PendingOwner(b) ELSE 1 - mover

\* C18: in legal play the value make_move returns is the owner of the next
\* pending worker (in the order +1, +2, -1, -2) while a worker remains to be
\* placed, the opponent of the placing player after the last placement, and
\* the opponent of the moving player after a movement action.
C18_NextPlayer ==
    [][(play' # "off" /\ call'.kind = "move" /\ ~trapped')
         => /\ next_player' = C18_Expected(board', next_player)
            /\ AllPlaced(board) => next_player' = 1 - next_player]_vars

\* Legal play has placed the four workers and made a move of each player.
C18_Witness ==
    /\ play = "legal"
    /\ call.kind = "move"
    /\ ~trapped
    /\ board.round = 6
    /\ next_player = 0

\* Whether the rules let the worker on cell o step in direction m.
RuleStep(b, o, m) ==
    LET ty == RowOf(o) + DirDy(m)
        tx == ColOf(o) + DirDx(m)
    IN  /\ m # 4
        /\ Inside(ty, tx)
        /\ b.workers[5 * ty + tx] = 0
        /\ b.levels[5 * ty + tx] <= 3
        /\ b.levels[5 * ty + tx] <= b.levels[o] + 1

\* C19: in every movement-phase position of legal play, for either player
\* and each of their workers, every step the rules allow from its cell o in
\* a direction m can be followed by a build in direction 8 - m: that action
\* is set in the mask, it builds on o, and applying it raises the level of
\* o by one; so the mask of a player is empty exactly when none of their
\* workers has a step.
C19_BuildBehind ==
    (play # "off" /\ AllPlaced(board)) =>
      \A p \in Players :
        LET mask == valid_moves(board, p)
        IN  /\ \A w \in {0, 1}, m \in 0 .. 8 :
                  RuleStep(board, Origin(board, p, w), m) =>
                    LET a == 81 * w + 9 * m + (8 - m)
                        o == Origin(board, p, w)
                        r == make_move(board, a, p)
                    IN  /\ mask[a]
                        /\ BuildCell(board, p, a) = o
                        /\ ~r.trap
                        /\ r.board.levels[o] = board.levels[o] + 1
                        /\ r.board.workers[o] = 0
            /\ (\A a \in Actions : ~mask[a])
                  <=> (\A w \in {0, 1}, m \in 0 .. 8 :
                         ~RuleStep(board, Origin(board, p, w), m))

\* Legal play has reached a position in which the only build that some
\* step of the side to move allows is the one on the cell it leaves.
C19_Witness ==
    /\ play = "legal"
    /\ AllPlaced(board)
    /\ LET mask == valid_moves(board, next_player)
       IN  \E w \in {0, 1}, m \in 0 .. 8 :
             /\ RuleStep(board, Origin(board, next_player, w), m)
             /\ \A d \in 0 .. 8 : mask[81 * w + 9 * m + d] <=> d = 8 - m

(***************************************************************************)
(* Claims about the board and its tokens (checked under SpecToken).        *)
(***************************************************************************)
\* What a step does to the round counter.
C14_Step ==
    /\ (token'.op = "move" /\ ~trapped')
          => board'.round = IF board.round < 127 THEN board.round + 1 ELSE 127
    /\ (token'.op = "move" /\ trapped') => board' = board
    /\ token'.op \in {"get", "canon"} => board' = board

\* C14: the round counter is 0 on a new or reset board and always in
\* 0..127; an apply_move call that commits an action (a placement or a
\* move, allowed by the mask or not) adds exactly 1 to it while it is below
\* 127 and leaves it at 127 once it is 127; a call that traps and the
\* queries leave it alone.
C14_RoundCounter ==
    /\ [](board.round \in 0 .. 127)
    /\ [](token.op \in {"none", "reset"} => board.round = 0)
    /\ [][C14_Step]_vars

\* Two committed actions followed a setState: the counter is 127, whether
\* it was 126 or 127 before them.
C14_Witness ==
    /\ token.op = "move"
    /\ token.moves = 2
    /\ ~trapped
    /\ call.action \in Actions
    /\ board.round = 127

\* C15: the serialised form of the board is 75 entries, entry 3i the worker
\* of cell i, entry 3i+1 its level, entry 2 the round and every other third
\* entry 0 (counted from 0); from_bytes of it is the board again, in workers,
\* levels and round; getState returns it.
C15_RoundTrip ==
    LET t == write_into_slice(board)
        back == from_bytes(t)
    IN  /\ Len(t) = 75
        /\ \A i \in Cells :
              /\ t[3 * i + 1] = board.workers[i]
              /\ t[3 * i + 2] = board.levels[i]
              /\ t[3 * i + 3] = IF i = 0 THEN board.round ELSE 0
        /\ back.workers = board.workers
        /\ back.levels = board.levels
        /\ back.round = board.round
        /\ token.op = "get" => (token.bytes = t /\ from_vec(token.bytes) = board)

\* getState has returned the token of a board with a worker on a raised
\* cell, a built cell and a round count that is not 0.
C15_Witness ==
    /\ token.op = "get"
    /\ token.moves > 0
    /\ board.round > 0
    /\ \E i \in Cells : board.workers[i] # 0 /\ board.levels[i] > 0
    /\ \E i \in Cells : board.workers[i] = 0 /\ board.levels[i] > 0

\* C16: canonicalised for player 0 is the board itself; for player 1 every
\* worker value is negated, so each worker changes owner, while levels and
\* round stay; doing it twice for player 1 gives the board back;
\* canonicalState returns the serialised form of that board.
C16_Canonical ==
    LET flipped == canonicalised(board, 1)
    IN  /\ canonicalised(board, 0) = board
        /\ \A i \in Cells :
              /\ flipped.workers[i] + board.workers[i] = 0
              /\ flipped.workers[i] > 0 <=> board.workers[i] < 0
              /\ flipped.workers[i] < 0 <=> board.workers[i] > 0
        /\ flipped.levels = board.levels
        /\ flipped.round = board.round
        /\ canonicalised(flipped, 1) = board
        /\ token.op = "canon" =>
              /\ \A i \in Cells :
                    /\ token.bytes[3 * i + 1] =
                          IF token.player = 0 THEN board.workers[i] ELSE -board.workers[i]
                    /\ token.bytes[3 * i + 2] = board.levels[i]
              /\ token.bytes[3] = board.round

\* canonicalState(1) has returned the token of a board that holds workers
\* of both players after a move.
C16_Witness ==
    /\ token.op = "canon"
    /\ token.player = 1
    /\ token.moves > 0
    /\ \E i \in Cells : board.workers[i] > 0
    /\ \E i \in Cells : board.workers[i] < 0
    /\ \E i \in Cells : board.levels[i] > 0

\* The triples of the action codec.
Triples == {<<w, m, d>> : w \in {0, 1}, m \in 0 .. 8, d \in 0 .. 8}
Encoded(t) == encode_action(t[1], t[2], t[3])
Decoded(a) ==
    <<decode_action(a).worker, decode_action(a).move_direction,
      decode_action(a).build_direction>>

\* C17: encode_action maps the 162 triples (worker in {0, 1}, move and build
\* direction in 0..8) one-to-one onto the indices 0..161, index
\* 81 * worker + 9 * move + build, and decode_action is its inverse on both
\* sides; the action of the last apply_move call inside the range is
\* the index of the triple it was decoded to.
C17_CodecBijection ==
    /\ \A t \in Triples :
          /\ Encoded(t) = 81 * t[1] + 9 * t[2] + t[3]
          /\ Encoded(t) \in Actions
          /\ Decoded(Encoded(t)) = t
    /\ \A a \in Actions : Decoded(a) \in Triples /\ Encoded(Decoded(a)) = a
    /\ Cardinality(Triples) = 162
    /\ Cardinality({Encoded(t) : t \in Triples}) = 162
    /\ {Encoded(t) : t \in Triples} = Actions
    /\ (call.kind = "move" /\ call.action \in Actions)
          => Encoded(Decoded(call.action)) = call.action

\* apply_move has committed a movement action of worker 1 whose move and
\* build directions differ.
C17_Witness ==
    /\ call.kind = "move"
    /\ ~trapped
    /\ token.op = "move"
    /\ call.action \in 81 .. 161
    /\ Decoded(call.action)[2] # Decoded(call.action)[3]
    /\ board.round > 4

(***************************************************************************)
(* Claims about the search (checked under SpecSearch).                     *)
(***************************************************************************)
\* The board the host asked about, and the root node's key.
AskedBoard == from_vec(asked.token)
RootKey == key(canonicalised(AskedBoard, asked.player))
OneHot(policy, a) == policy = [i \in Actions |-> IF i = a THEN R(1) ELSE R(0)]
ShortAnswer == answer # None /\ answer[1].len < 162

\* C5: a search call with temperature 0 that returns a result returns a
\* policy with 1 on one action that the rules allow the queried player at
\* the root, and 0 everywhere else.
C5_OneHotLegal ==
    (result.kind = "ok" /\ query.temperature = R(0)) =>
        \E a \in Actions :
            /\ RuleMask(AskedBoard, asked.player)[a]
            /\ OneHot(result.policy, a)

Stats(node) ==
    <<node.visit_count, node.nsa, node.qsa, node.mean_value, node.terminal_value,
      node.valid, node.round>>

Repeated ==
    /\ prev # None
    /\ last # None
    /\ honest
    /\ config.dirichlet_weight = R(0)
    /\ prev[1].query.temperature = last[1].query.temperature
    /\ prev[1].query.force_full_search = last[1].query.force_full_search
    /\ prev[1].query.seed # None
    /\ prev[1].query.seed = last[1].query.seed

IsFull == query.force_full_search \/ RLt(query.roll, config.prob_full_search)
Budget ==
    IF IsFull THEN config.num_simulations
    ELSE Max(1, config.num_simulations \div Max(1, config.partial_divisor))
RanToEnd ==
    \/ result.kind = "ok"
    \/ result = [kind |-> "err", error |-> "root node missing after simulations"]

\* C10: a search call that is not cut short by a predictor error runs
\* exactly its budget of simulations; at any time a call has begun at most
\* budget simulations, and each of them either met a terminal node or
\* called the predictor once, so the predictor calls are at most budget;
\* the budget with num_simulations = 64 and partial_divisor = 4 in a
\* partial search is 16.
C10_Budget ==
    /\ RanToEnd => meter.sims = Budget
    /\ result.kind = "ok" => result.full_search = IsFull
    /\ result.kind \in {"ok", "pending"} \/ RanToEnd \/ ShortAnswer
         => /\ meter.sims <= Budget
            /\ meter.sims = meter.calls + meter.terminal
            /\ meter.calls <= Budget
    /\ num_sims_for([MctsConfig_default EXCEPT !.num_simulations = 64,
                                               !.prob_full_search = R(0)], FALSE) = 16

\* A partial search of an engine with num_simulations = 2 and
\* partial_divisor = 2 has returned after its one simulation.
C10_Witness ==
    /\ result.kind = "ok"
    /\ ~result.full_search
    /\ config.num_simulations = 2
    /\ meter.sims = 1
    /\ meter.calls = 1

\* The value record_value was given at a breadcrumb node, read off the
\* node's visit count and mean before and after.
Recorded(mark) ==
    RSub(RMul(mark.after.mean_value, R(mark.before.visit_count + 2)),
         RMul(mark.before.mean_value, R(mark.before.visit_count + 1)))
\* -1 for an odd number of flipped edges among the breadcrumbs i..Len(path).
SignFrom(path, i) ==
    IF Cardinality({j \in i .. Len(path) : path[j][2]}) % 2 = 1 THEN -1 ELSE 1

\* C20: a backpropagation of the value v along the breadcrumbs gives each
\* breadcrumb node one more visit and the value v negated once for every
\* flipped edge from that node to the leaf, its own edge included, both in
\* the node's mean and in the mean of its edge; the value the simulation
\* returns, v times the sign kept on the way down, is the value recorded
\* at the root (and v itself when the root is the leaf).
C20_Perspective ==
    trail # None =>
      LET t == trail[1]
      IN  /\ \A i \in 1 .. Len(t.path) :
                LET m == t.marks[i]
                    expected == RMul(t.value, R(SignFrom(t.path, i)))
                IN  /\ Recorded(m) = expected
                    /\ m.after.visit_count = m.before.visit_count + 1
                    /\ m.after.nsa = m.before.nsa + 1
                    /\ m.after.qsa =
                          RAdd(m.before.qsa,
                               RDiv(RSub(expected, m.before.qsa), R(m.after.nsa)))
          /\ t.returned = RMul(t.value, R(SignFrom(t.path, 1)))
          /\ Len(t.path) > 0 => t.returned = Recorded(t.marks[1])

\* A simulation has gone down two edges, the first of which does not change
\* the side to move and the second of which does, and has backed up a
\* value that is not 0.
C20_Witness ==
    /\ trail # None
    /\ Len(trail[1].path) >= 2
    /\ ~trail[1].path[1][2]
    /\ trail[1].path[2][2]
    /\ trail[1].value # R(0)

(***************************************************************************)
(* Claims about the cleanup of the table (checked under SpecTrajectory).   *)
(***************************************************************************)
\* The round stamps of the nodes of a table.
Stamps(table) == {table[k].round : k \in DOMAIN table}
\* A step in which a search call runs to its end: `sweep` holds the table
\* its simulations left and `asked` the position of its root.
C12_Step ==
    sweep' # None =>
        LET before == sweep'[1]
            r == from_vec(asked'.token).round
            threshold == IF r > config.retain_rounds THEN r - config.retain_rounds ELSE 0
        IN  IF ~config.no_mem_optim /\ r > last_cleanup_round + config.cleanup_interval
            THEN /\ DOMAIN nodes' = {k \in DOMAIN before : before[k].round >= threshold}
                 /\ \A k \in DOMAIN nodes' : nodes'[k] = before[k]
                 /\ last_cleanup_round' = r
            ELSE /\ nodes' = before
                 /\ last_cleanup_round' = last_cleanup_round

\* C12: a search call with root round r that runs to its end removes, when
\* no_mem_optim is false and r > last_cleanup_round + cleanup_interval,
\* exactly the nodes stamped below r - retain_rounds (floored at 0), keeps
\* every other node as it was and sets last_cleanup_round to r; in every
\* other case, no_mem_optim included, it removes no node and leaves
\* last_cleanup_round alone.
C12_Cleanup == [][C12_Step]_vars

\* A call has just ended with a cleanup that removed some nodes and kept
\* others.
C12_Witness ==
    /\ sweep # None
    /\ ~config.no_mem_optim
    /\ last_cleanup_round = from_vec(asked.token).round
    /\ last_cleanup_round > config.retain_rounds
    /\ DOMAIN nodes # DOMAIN sweep[1]
    /\ \E k \in DOMAIN nodes : nodes[k].round < last_cleanup_round

\* The call of round r of the record has returned its result.
ReturnedAt(r) ==
    /\ task.pc = "idle"
    /\ result.kind = "ok"
    /\ used.searches = r
    /\ from_vec(asked.token).round = r

\* The statement of C11 as the specification has it: with cleanup_interval
\* 20 and retain_rounds 5, once the call of round 40 has returned no node is
\* stamped below 35.
C11_Original ==
    (config = Keeper /\ ReturnedAt(40)) => \A s \in Stamps(nodes) : s >= 35

\* C11: with cleanup_interval = 20 and retain_rounds = 5 on a fresh engine
\* asked about rounds 1, 2, 3, ... in turn, the first cleanup is in the call
\* of round 21 and the second in the call of round 42; once the call of
\* round 40 has returned, no node is stamped below 16 and nodes of every
\* stamp from 16 to 34 are still held; once the call of round 42 has
\* returned, no node is stamped below 37.
C11_CleanupRounds ==
    config = Keeper =>
        /\ \A r \in 1 .. MaxTrajectoryRound :
              ReturnedAt(r) =>
                  last_cleanup_round = IF r < 21 THEN 0 ELSE IF r < 42 THEN 21 ELSE 42
        /\ ReturnedAt(40) =>
              /\ \A s \in Stamps(nodes) : s >= 16
              /\ 16 .. 34 \subseteq Stamps(nodes)
        /\ ReturnedAt(42) => \A s \in Stamps(nodes) : s >= 37

\* The call of round 40 has returned on the engine with cleanup_interval 20
\* and retain_rounds 5, which was fresh before the call of round 1.
C11_Witness ==
    /\ config = Keeper
    /\ config.cleanup_interval = 20 /\ config.retain_rounds = 5
    /\ ReturnedAt(40)

(***************************************************************************)
(* Claims about the statistics of the nodes (checked under SpecSearch).    *)
(***************************************************************************)
\* The record of the simulation that inserted node k (0 when there is none).
InsertedAt(k) ==
    LET ins == {i \in 1 .. Len(log) : log[i].leaf = k /\ log[i].inserted}
    IN  IF ins = {} THEN 0 ELSE CHOOSE i \in ins : \A j \in ins : j <= i
\* The simulations that ended at node k since it was inserted, the one that
\* inserted it included.
EndedAt(k) == {i \in InsertedAt(k) .. Len(log) : i > 0 /\ log[i].leaf = k}
\* The breadcrumbs <<record, position>> of node k since it was inserted.
Crossings(k) ==
    {c \in UNION {{<<i, j>> : j \in 1 .. Len(log[i].keys)} : i \in 1 .. Len(log)} :
        c[1] > InsertedAt(k) /\ log[c[1]].keys[c[2]] = k}
\* The value backpropagation carries into the node of breadcrumb c.
CarriedValue(c) == RMul(log[c[1]].value, R(SignFrom(log[c[1]].path, c[2])))
\* The sum of the edge visits of a node.
RECURSIVE WeightedCount(_, _)
WeightedCount(node, counts) ==
    IF counts = {} THEN 0
    ELSE LET n == CHOOSE m \in counts : TRUE
         IN  n * Cardinality({a \in Actions : node.nsa[a] = n})
               + WeightedCount(node, counts \ {n})
EdgeVisits(node) == WeightedCount(node, {node.nsa[a] : a \in Actions})
\* The sum of the values carried into the breadcrumbs of a set.
SumCarried(crossings) ==
    RSum([c \in crossings |-> CarriedValue(c)], crossings)

\* The statement of C21 as the specification has it: total_visits is the
\* sum of the edge visits plus the number of simulations that ended at the
\* node.
C21_Original ==
    \A k \in DOMAIN nodes :
        nodes[k].visit_count = EdgeVisits(nodes[k]) + Cardinality(EndedAt(k))

\* C21: the visit count of every node of the table is the sum of its edge
\* visits, which is the number of simulations that went through the node
\* since it was inserted; the simulations that ended at the node, as the
\* leaf they inserted or as a terminal node, are not counted, so a terminal
\* node keeps the count 0.
C21_VisitsAreEdgeVisits ==
    \A k \in DOMAIN nodes :
        /\ nodes[k].visit_count = EdgeVisits(nodes[k])
        /\ nodes[k].visit_count = Cardinality(Crossings(k))
        /\ nodes[k].terminal_value # None => nodes[k].visit_count = 0
        /\ InsertedAt(k) > 0

\* Simulations have gone through a node and others have ended at it.
C21_Witness ==
    \E k \in DOMAIN nodes :
        /\ nodes[k].visit_count >= 2
        /\ \E t \in DOMAIN nodes :
              /\ nodes[t].terminal_value # None
              /\ Cardinality(EndedAt(t)) >= 2

\* What the statement of C22 says of one breadcrumb, with the value v
\* carried into it.
C22_AsStated(m, v) ==
    /\ m.after.nsa = m.before.nsa + 1
    /\ m.after.visit_count = m.before.visit_count + 1
    /\ m.after.qsa = RAdd(m.before.qsa, RDiv(RSub(v, m.before.qsa), R(m.after.nsa)))
    /\ m.after.mean_value =
          RAdd(m.before.mean_value,
               RDiv(RSub(v, m.before.mean_value), R(m.after.visit_count)))
    /\ m.before.visit_count = 0 => m.after.mean_value = v

\* The statement of C22 as the specification has it.
C22_Original ==
    \A i \in 1 .. Len(log) : \A j \in 1 .. Len(log[i].path) :
        C22_AsStated(log[i].marks[j], CarriedValue(<<i, j>>))

\* C22: a backpropagation that carries v' into a node through edge a adds
\* 1 to edge_visits[a] and to total_visits, makes edge_q[a] the arithmetic
\* mean of the values carried through a so far, and updates mean_value as
\* mean_value += (v' - mean_value) / (total_visits + 1) with the incremented
\* total_visits, so that after the first update of a node created with mean
\* m0, mean_value = (m0 + v') / 2.
C22_Update ==
    /\ \A i \in 1 .. Len(log) : \A j \in 1 .. Len(log[i].path) :
          LET m == log[i].marks[j]
              v == CarriedValue(<<i, j>>)
          IN  /\ m.after.nsa = m.before.nsa + 1
              /\ m.after.visit_count = m.before.visit_count + 1
              /\ m.after.mean_value =
                    RAdd(m.before.mean_value,
                         RDiv(RSub(v, m.before.mean_value),
                              R(m.after.visit_count + 1)))
              /\ m.before.visit_count = 0 =>
                    m.after.mean_value = RDiv(RAdd(m.before.mean_value, v), R(2))
    /\ \A k \in DOMAIN nodes : \A a \in Actions :
          LET through == {c \in Crossings(k) : log[c[1]].path[c[2]][1] = a}
          IN  /\ nodes[k].nsa[a] = Cardinality(through)
              /\ through # {} =>
                    nodes[k].qsa[a] = RDiv(SumCarried(through), R(Cardinality(through)))
              /\ through = {} => nodes[k].qsa[a] = R(0)

\* Two different values have been carried through the same edge of a node.
C22_Witness ==
    \E k \in DOMAIN nodes : \E a \in Actions :
        /\ nodes[k].nsa[a] >= 2
        /\ \E c, d \in Crossings(k) :
              /\ log[c[1]].path[c[2]][1] = a
              /\ log[d[1]].path[d[2]][1] = a
              /\ CarriedValue(c) # CarriedValue(d)

\* C23: a node created with mean m0 that has since had the values v1..vk
\* recorded has visit_count = k and mean_value = (m0 + v1 + ... + vk) / (k + 1).
C23_InitialMeanCounts ==
    \A k \in DOMAIN nodes :
        InsertedAt(k) > 0 =>
            /\ nodes[k].visit_count = Cardinality(Crossings(k))
            /\ nodes[k].mean_value =
                  RDiv(RAdd(log[InsertedAt(k)].value, SumCarried(Crossings(k))),
                       R(Cardinality(Crossings(k)) + 1))

\* A node created with a mean other than 0 has had three values recorded,
\* not all the same.
C23_Witness ==
    \E k \in DOMAIN nodes :
        /\ InsertedAt(k) > 0
        /\ log[InsertedAt(k)].value # R(0)
        /\ nodes[k].visit_count >= 3
        /\ \E c, d \in Crossings(k) : CarriedValue(c) # CarriedValue(d)

\* The priors a node has when the noise has been mixed once into the prior
\* that from_prediction gives it.
NoisedOnce(node) ==
    {apply_dirichlet(from_prediction(node.valid, prediction, node.round), s,
                     config.dirichlet_alpha, config.dirichlet_weight).node.policy :
        prediction \in {p \in Predictions : p.len >= ACTION_SIZE}, s \in RngStates}

\* C24: a full search with dirichlet_weight > 0 and dirichlet_alpha > 0
\* whose root has at least two legal actions mixes the noise into the
\* root's prior exactly once, also when the root was not in the table when
\* the call began: after the first call on a new engine the root's prior is
\* the predictor's prior with the noise mixed in once.
C24_NoiseOnce ==
    (/\ result.kind = "ok"
     /\ result.full_search
     /\ query.fresh
     /\ RLt(R(0), config.dirichlet_weight)
     /\ RLt(R(0), config.dirichlet_alpha)
     /\ Cardinality(ValidSet(nodes[RootKey].valid)) >= 2)
        => nodes[RootKey].policy \in NoisedOnce(nodes[RootKey])

\* The counts root_distribution works on at the root of the last call.
RootCounts ==
    pruned_counts(config, nodes[RootKey].valid, nodes[RootKey].policy,
                  nodes[RootKey].nsa, result.full_search /\ config.forced_playouts,
                  Budget)

\* C25: a search call with temperature 0 on a root with a legal action
\* returns probability 1 on the lowest legal action when every legal action
\* has count 0, and on a legal action of the largest count otherwise.
C25_GreedyChoice ==
    (/\ result.kind = "ok"
     /\ query.temperature = R(0)
     /\ ValidSet(nodes[RootKey].valid) # {})
        => LET vs == ValidSet(nodes[RootKey].valid)
           IN  IF \A a \in vs : RootCounts[a] = 0
               THEN OneHot(result.policy, CHOOSE a \in vs : \A b \in vs : a <= b)
               ELSE \E a \in vs :
                        /\ \A b \in vs : RootCounts[b] <= RootCounts[a]
                        /\ OneHot(result.policy, a)

(***************************************************************************)
(* Claims about a dropped search (checked under SpecDrop).                 *)
(***************************************************************************)
\* Every node of the table was inserted by a simulation that returned, and
\* its visits are the simulations that returned after going through it.
Backpropagated ==
    \A k \in DOMAIN nodes :
        /\ InsertedAt(k) > 0
        /\ nodes[k].visit_count = Cardinality(Crossings(k))
        /\ \A i \in 1 .. InsertedAt(k) :
              i = InsertedAt(k) =>
                  \A j \in 1 .. Len(log[i].keys) :
                      /\ log[i].keys[j] \in DOMAIN nodes
                      /\ log[i].marks[j].after.visit_count
                            = log[i].marks[j].before.visit_count + 1

\* The table is the one the simulation in progress began with, but for the
\* prior of the root, into which simulation 1 may have mixed the noise.
AsBetweenSimulations ==
    /\ DOMAIN nodes = DOMAIN task.before
    /\ \A k \in DOMAIN nodes :
          /\ Stats(nodes[k]) = Stats(task.before[k])
          /\ (k # RootKey \/ task.sim > 0) => nodes[k] = task.before[k]

C26_Step ==
    /\ (task.pc = "await" /\ task'.pc = "idle" /\ result'.kind = "dropped")
          => (nodes' = nodes /\ AsBetweenSimulations /\ Backpropagated')
    /\ result.kind = "dropped" => result'.kind \in {"dropped", "pending", "ok"}

EdgesTaken ==
    UNION {{<<log[i].keys[j], log[i].path[j][1]>> : j \in 1 .. Len(log[i].keys)} :
              i \in 1 .. Len(log)}
      \cup {<<task.leaf.breadcrumbs[j][1], task.leaf.breadcrumbs[j][2]>> :
               j \in 1 .. Len(task.leaf.breadcrumbs)}

LevelSum(b) ==
    LET RECURSIVE upto(_)
        upto(i) == IF i < 0 THEN 0 ELSE b.levels[i] + upto(i - 1)
    IN  upto(BOARD_SIZE * BOARD_SIZE - 1)

\* Workers on the board plus levels built: 0 on the empty board, at most
\* 4 + 4 * 25 on any board.
Rank(b) == Cardinality({i \in Cells : b.workers[i] # 0}) + LevelSum(b)

\* The keys a simulation went through, its leaf last: of the simulations
\* that returned and of the one that is suspended.
Descents ==
    {Append(log[i].keys, log[i].leaf) : i \in 1 .. Len(log)}
      \cup (IF task.pc = "await"
            THEN {Append([j \in 1 .. Len(task.leaf.breadcrumbs) |->
                             task.leaf.breadcrumbs[j][1]], task.leaf.key)}
            ELSE {})

\* C28: every action the mask allows on a board with the four workers
\* placed builds, so it raises the sum of the levels by exactly one, and
\* a placement adds one worker and builds nothing; hence the keys of a
\* descent are pairwise different, also where the round stays at 127,
\* and a descent is no longer than the 4 placements and 100 levels that
\* are left to its root, and ends in a leaf that was not in the table or
\* in a terminal node.
C28_Descent ==
    /\ \A d \in Descents :
          /\ \A j \in 1 .. Len(d) - 1 :
                LET b == from_vec(d[j])
                    c == from_vec(d[j + 1])
                IN  /\ Rank(c) = Rank(b) + 1
                    /\ AllPlaced(b) => LevelSum(c) = LevelSum(b) + 1
                    /\ ~AllPlaced(b) => LevelSum(c) = LevelSum(b)
                    /\ AllPlaced(b) =>
                          LET mask == valid_moves(b, 0)
                              sum == LevelSum(b)
                          IN  \A a \in 0 .. ACTION_SIZE - 1 :
                                 mask[a] =>
                                    LevelSum(make_move(b, a, 0).board) = sum + 1
          /\ \A i, j \in 1 .. Len(d) : i # j => d[i] # d[j]
          /\ Len(d) - 1 <= 4 + 4 * BOARD_SIZE * BOARD_SIZE - Rank(from_vec(d[1]))
    /\ \A i \in 1 .. Len(log) :
          \/ log[i].inserted
          \/ /\ log[i].leaf \in DOMAIN nodes
             /\ nodes[log[i].leaf].terminal_value # None

\* From a root at round 127 a simulation has gone down three moves, every
\* key of it with the round 127, and has returned.
C28_Witness ==
    /\ asked.token[3] = 127
    /\ \E i \in 1 .. Len(log) :
          /\ Len(log[i].keys) >= 3
          /\ \A j \in 1 .. Len(log[i].keys) : log[i].keys[j][3] = 127
          /\ log[i].leaf[3] = 127

(***************************************************************************)
(* Claims about the root of a call and the cleanup (checked under          *)
(* SpecTrajectory).                                                        *)
(***************************************************************************)
RootMissing == [kind |-> "err", error |-> "root node missing after simulations"]

\* C29: every node is stamped with the round that its key encodes, so the
\* cleanup at the end of a search call, whose threshold is at most the
\* round of the call's root, keeps the root as the simulations left it:
\* with a budget of at least 1 and a predictor that fulfils its contract,
\* search finds the root after the cleanup and never fails with 'root node
\* missing after simulations'.
C29_RootKept ==
    /\ \A k \in DOMAIN nodes : nodes[k].round = from_vec(k).round
    /\ (sweep # None /\ meter.budget >= 1) =>
          /\ RootKey \in DOMAIN sweep[1]
          /\ RootKey \in DOMAIN nodes
          /\ nodes[RootKey] = sweep[1][RootKey]
          /\ nodes[RootKey].round = from_vec(asked.token).round
          /\ result.kind = "ok"
    /\ meter.budget >= 1 => result # RootMissing

\* A call has just ended with a cleanup whose threshold was the round of
\* its root: nodes of earlier rounds were removed, the root was kept and
\* the call returned its result.
C29_Witness ==
    /\ sweep # None
    /\ config = Prompt
    /\ meter.budget >= 1
    /\ result.kind = "ok"
    /\ last_cleanup_round = from_vec(asked.token).round
    /\ DOMAIN nodes # DOMAIN sweep[1]
    /\ \A k \in DOMAIN nodes : nodes[k].round >= nodes[RootKey].round

(***************************************************************************)
(* Claims about the visits of the root (checked under SpecSearch).         *)
(***************************************************************************)
\* The sum of a vector of edge visits.
VisitSum(counts) == EdgeVisits([nsa |-> counts])

C30_Returned ==
    LET root == nodes[RootKey]
        now == VisitSum(root.nsa)
    IN  /\ VisitSum(result.visits) = now
        /\ \A a \in Actions : ~root.valid[a] => result.visits[a] = 0
        /\ IF root.terminal_value # None
           THEN \A a \in Actions : result.visits[a] = 0
           ELSE IF query.known # None
           THEN now = VisitSum(query.known[1]) + meter.budget
           ELSE now = meter.budget - 1

\* C30: when a search call returns its result for a root that is not
\* terminal, the sum of the root's edge visits is budget more than it was
\* when the call began if the root was in the table then, and budget - 1
\* if it was not; the visits returned are the root's edge visits (0 on
\* illegal actions), so they sum to what all the calls since the root was
\* inserted have added; for a terminal root every entry of visits is 0.
C30_RootVisits == (sweep # None /\ result.kind = "ok") => C30_Returned

\* A second call on the engine, with a budget of at least 2, has returned
\* for a root that the first call had left in the table with edge visits:
\* the visits returned sum to more than the budget of the call.
C30_Witness ==
    /\ sweep # None
    /\ result.kind = "ok"
    /\ nodes[RootKey].terminal_value = None
    /\ query.known # None
    /\ VisitSum(query.known[1]) > 0
    /\ meter.budget >= 2
    /\ VisitSum(result.visits) > meter.budget

=============================================================================
